---------------------------- MODULE Spec2Model ----------------------------
(***************************************************************************)
(* Token lifecycle and HTTP verb gateway of the Vectra SaaS API client     *)
(* (src/index.js).  The file holds two class definitions: the current      *)
(* client (lines 5-1148, variant 1) and an earlier one (lines 1155-1653,   *)
(* variant 2).  Time is the wall clock in milliseconds; Date.now() is read *)
(* where the code reads it.  The clock advances while a call sleeps in      *)
(* #sleep, while the OAuth2 response travels, and between calls; resource  *)
(* requests are answered without delay.                                    *)
(***************************************************************************)
EXTENDS Integers, Sequences, FiniteSets, TLC

(* ------------------------------ bounds -------------------------------- *)
\* Gateway calls started in one behaviour.
MaxCalls == 3
\* Idle periods (clock advances between calls) in one behaviour.
MaxTicks == 2
\* Callers that may use the client object (Init says which of them do).
NumCallers == 2
\* Walks started in one behaviour.
MaxWalks == 1
\* Events appended to the server's log in one behaviour.
MaxAppends == 2
\* Events the server's log holds when the client is constructed, at most.
MaxLog == 3
\* Events the log server puts in one answer, at most (never above the limit
\* the request names).
ServerPage == 2

(* ------------------------- program constants -------------------------- *)
\* #sleepTime = 500 (milliseconds)
SleepTime == 500
\* the "- 100" of #getToken in the current client (seconds)
Margin == 100

Callers == 1..NumCallers
Variants == {1, 2}
\* constructor(siteURL, clientID, secret, version = 3)
Versions == {3, 2}
\* expires_in values (seconds) the OAuth2 server may answer with
ExpiresIns == {2, 100, 200}
\* time (milliseconds) the OAuth2 response may take to arrive
Latencies == {0, 1000}
\* lengths of the idle periods between calls (milliseconds)
TickSteps == {100000}
\* status codes of failed resource requests, and of a failed exchange
FailStatuses == {404, 500}
AuthFailStatuses == {401}

\* A bearer token: the number of the exchange that issued it, and the instant
\* (ms) at which the server stops accepting it (issue instant + expires_in).
NoToken == [id |-> 0, exp |-> 0]
SiteURL == <<"https://brain.portal.vectra.ai">>

StatusText(s) ==
    CASE s = 401 -> "Unauthorized"
      [] s = 404 -> "Not Found"
      [] s = 500 -> "Internal Server Error"
      [] OTHER -> ""

(* --------------------------- public operations ------------------------ *)
\* One public operation per gateway verb, with the path it formats.
DetectionID == "999"
NoteID == "7"

getDetection == [name |-> "getDetection", verb |-> "GET",
                 path |-> <<"detections", DetectionID>>]
addDetectionNote == [name |-> "addDetectionNote", verb |-> "POST",
                     path |-> <<"detections", DetectionID, "notes">>]
updateDetectionNote == [name |-> "updateDetectionNote", verb |-> "PATCH",
                        path |-> <<"detections", DetectionID, "notes", NoteID>>]
updateTriageRule == [name |-> "updateTriageRule", verb |-> "PUT",
                     path |-> <<"rules">>]
deleteDetectionNote == [name |-> "deleteDetectionNote", verb |-> "DELETE",
                        path |-> <<"detections", DetectionID, "notes", NoteID>>]

Ops == {getDetection, addDetectionNote, updateDetectionNote,
        updateTriageRule, deleteDetectionNote}
Verbs == {"GET", "POST", "PATCH", "PUT", "DELETE"}
NoOp == [name |-> "", verb |-> "", path |-> <<>>]

\* The body argument a verb is entered with, sent as the request's data:
\* undefined, { note: note }, the number ruleID, or { tags: [...] }.
NoBody == [kind |-> "undefined", tags |-> <<>>]
NoteBody == [kind |-> "note", tags |-> <<>>]
RuleIDBody == [kind |-> "ruleID", tags |-> <<>>]
TagsBody(ts) == [kind |-> "tags", tags |-> ts]

\* What a single-call operation passes to its verb after the path: the
\* second argument (a third one has no parameter to go to).
Body(o) ==
    CASE o = addDetectionNote -> NoteBody
      [] o = updateDetectionNote -> NoteBody
      [] o = updateTriageRule -> RuleIDBody
      [] OTHER -> NoBody

\* The entities that carry tags, one of each kind; only the current client
\* has operations on host tags.
AccountID == "12"
HostID == "34"
Entities == {"detection", "account", "host"}
EntityID(e) ==
    CASE e = "detection" -> DetectionID
      [] e = "account" -> AccountID
      [] e = "host" -> HostID
\* `/tagging/detection/${detectionID}`
TaggingPath(e) == <<"tagging", e, EntityID(e)>>
\* no entity has a tag
NoTags == [e \in Entities |-> <<>>]
\* what getLatestAccountCheckpoint returns while it has returned nothing
NoCheckpoint == -1

(* ------------------------------- URLs --------------------------------- *)
\* `${this.#siteURL}/oauth2/token`
OAuthURL == SiteURL \o <<"oauth2", "token">>

\* this.#version = `v${version}`; the earlier client writes v3 in every verb
VersionSegment(v, ver) ==
    IF v = 1 THEN (IF ver = 3 THEN "v3" ELSE "v2") ELSE "v3"

\* A URL or a path is the sequence of its parts between slashes.  A path
\* starts with a slash; a fully-qualified URL starts with scheme and host.
IsAbsolute(url) == url # <<>> /\ url[1] = SiteURL[1]

\* `${this.#siteURL}/api/${this.#version}${url}`: plain string concatenation,
\* so an argument that does not start with a slash runs on from the version.
ApiURL(v, ver, path) ==
    IF IsAbsolute(path)
    THEN SiteURL \o <<"api", VersionSegment(v, ver) \o path[1]>> \o Tail(path)
    ELSE SiteURL \o <<"api", VersionSegment(v, ver)>> \o path

(* ------------------------------ errors -------------------------------- *)
\* What a promise rejects with.  shape "transport" is the transport
\* library's error object (err.response present or not); shape "normalized"
\* is the plain object {status, statusText, url}.
NoErr == [shape |-> "none", hasResponse |-> FALSE, status |-> 0,
          statusText |-> "", url |-> <<>>]

\* the transport's rejection of a request to `url` answered with `status`
TransportErr(status, url) ==
    [shape |-> "transport", hasResponse |-> TRUE, status |-> status,
     statusText |-> StatusText(status), url |-> url]

\* the transport's rejection when no response was received
NetworkErr(url) ==
    [shape |-> "transport", hasResponse |-> FALSE, status |-> 0,
     statusText |-> "", url |-> url]

\* throw {status: err.response.status, statusText: ..., url: err.response.config.url}
Normalize(e) ==
    [shape |-> "normalized", hasResponse |-> FALSE, status |-> e.status,
     statusText |-> e.statusText, url |-> e.url]

\* The verbs whose catch block tests err.response and rethrows the plain object.
NormalizingVerbs(v) == IF v = 1 THEN {"GET", "POST", "PUT"} ELSE {}

\* (changed) catch (err) { throw err; } in every verb
VerbCatch_Rethrow(v, vb, e) == e

\* The catch block of a verb: what the caller's promise rejects with.
VerbCatch(v, vb, e) ==
    IF vb \in NormalizingVerbs(v) /\ e.hasResponse THEN Normalize(e) ELSE e

(* --------------------------- token manager ---------------------------- *)
\* Math.floor(Date.now() / 1000)
NowSec(ms) == ms \div 1000

\* the margin subtracted by #getToken: 100 in the current client, none before
MarginOf(v) == IF v = 1 THEN Margin ELSE 0

\* (changed) the margin added instead of subtracted
GetTokenExpiry_AddMargin(v, ms, expiresIn) == NowSec(ms) + expiresIn + MarginOf(v)

\* (changed) the expiry clamped so that it is never earlier than now
GetTokenExpiry_Clamped(v, ms, expiresIn) ==
    IF expiresIn <= MarginOf(v) THEN NowSec(ms)
    ELSE NowSec(ms) + expiresIn - MarginOf(v)

\* this.#tokenRefresh = Math.floor(Date.now() / 1000) + data.data.expires_in - 100
GetTokenExpiry(v, ms, expiresIn) == NowSec(ms) + expiresIn - MarginOf(v)

\* (changed) the expiry instant is not looked at once a token is held
NeedsRefresh_OnlyWithoutToken(tok, refresh, ms) == tok = NoToken

\* (changed) no caching: every check asks for a new token
NeedsRefresh_Always(tok, refresh, ms) == TRUE

\* !this.#token || this.#tokenRefresh < Math.floor(Date.now() / 1000)
NeedsRefresh(tok, refresh, ms) == tok = NoToken \/ refresh < NowSec(ms)

(* ------------------------------ walkers ------------------------------- *)
\* The pagination walkers and the checkpoint walkers; path is the list path.
getAllDetections == [name |-> "getAllDetections", verb |-> "GET",
                     path |-> <<"detections">>]
getAllAccounts == [name |-> "getAllAccounts", verb |-> "GET",
                   path |-> <<"accounts">>]
\* getAssignments takes no options and starts at the bare list path; only
\* the current client has it.
getAssignments == [name |-> "getAssignments", verb |-> "GET",
                   path |-> <<"assignments">>]
getAccountChanges == [name |-> "getAccountChanges", verb |-> "GET",
                      path |-> <<"events", "account_scoring">>]
getDetectionChanges == [name |-> "getDetectionChanges", verb |-> "GET",
                        path |-> <<"events", "account_detection">>]
PageWalks == {getAllDetections, getAllAccounts, getAssignments}
EventWalks == {getAccountChanges, getDetectionChanges}
Walks == PageWalks \cup EventWalks
PageWalkNames == {w.name : w \in PageWalks}
EventWalkNames == {w.name : w \in EventWalks}
\* the walker whose name is n
WalkNamed(n) == CHOOSE w \in Walks : w.name = n

\* The options argument of a pagination walker: not given (undefined), or an
\* object whose own keys, in order, are listed with their values.
NoOptions == [given |-> FALSE, pairs |-> <<>>]
EmptyOptions == [given |-> TRUE, pairs |-> <<>>]
StateOptions == [given |-> TRUE, pairs |-> <<"state=active">>]
Options == {NoOptions, EmptyOptions, StateOptions}

\* extra += `&${option}=${options[option]}` for every key: the query
\* parameters that follow ?page=1, each a part of its own
Extra(pairs) == [i \in 1..Len(pairs) |-> "&" \o pairs[i]]

\* `/detections?page=${n}${extra}`: the list path, the page parameter, extra
PagePath(w, n, pairs) == w.path \o <<"?page=" \o ToString(n)>> \o Extra(pairs)

\* data.next before the first fetch: `/detections?page=1${extra}`, or
\* `/assignments`
FirstPath(w, pairs) ==
    IF w = getAssignments THEN w.path ELSE PagePath(w, 1, pairs)

\* the name of the checkpoint parameter: from, and since in the earlier client
CheckpointParam(v) == IF v = 1 THEN "from" ELSE "since"

\* the limit every checkpoint fetch asks for
Limit == 1000

\* (changed) every fetch asks from the start of the log
EventsPath_FromZero(v, w, cp) ==
    w.path \o <<"?limit=" \o ToString(Limit),
                "&" \o CheckpointParam(v) \o "=" \o ToString(0)>>

\* `/events/account_scoring?limit=1000&from=${data.next_checkpoint}`
EventsPath(v, w, cp) ==
    w.path \o <<"?limit=" \o ToString(Limit),
                "&" \o CheckpointParam(v) \o "=" \o ToString(cp)>>

\* The probes for the latest checkpoint; only the current client has them.
getLatestAccountCheckpoint ==
    [name |-> "getLatestAccountCheckpoint", verb |-> "GET",
     path |-> <<"events", "account_scoring">>]
getLatestDetectionCheckpoint ==
    [name |-> "getLatestDetectionCheckpoint", verb |-> "GET",
     path |-> <<"events", "account_detection">>]
Probes == {getLatestAccountCheckpoint, getLatestDetectionCheckpoint}
ProbeNames == {w.name : w \in Probes}
\* the probe whose name is n
ProbeNamed(n) == CHOOSE w \in Probes : w.name = n

\* the from value of the first fetch of a probe, as the template spells it
Sentinel == "999999999999"

\* (changed) the first fetch asks from the start of the log
SentinelPath_FromZero(w) ==
    w.path \o <<"?limit=" \o ToString(Limit), "&from=" \o ToString(0)>>

\* `/events/account_scoring?limit=1000&from=999999999999`
SentinelPath(w) ==
    w.path \o <<"?limit=" \o ToString(Limit), "&from=" \o Sentinel>>

\* the greatest index below lim at which `vectra.ai` ends a part of url
\* (the greedy .* of the pattern), 0 if there is none
RECURSIVE LastHost(_, _)
LastHost(url, lim) ==
    IF lim = 0 THEN 0
    ELSE IF url[lim] = SiteURL[1] THEN lim ELSE LastHost(url, lim - 1)

\* data.next.replace(/.*vectra.ai\/api\/v3[^\/]*/, "") in the current client
\* (of the modelled versions only v3 begins with v3), and
\* data.next.replace(/.*vectra.ai/, "") in the earlier one
StripNext(v, next) ==
    LET h == LastHost(next, Len(next))
    IN  IF v = 1
        THEN IF h > 0 /\ Len(next) >= h + 2 /\ next[h + 1] = "api"
                      /\ next[h + 2] = "v3"
             THEN SubSeq(next, h + 3, Len(next))
             ELSE next
        ELSE IF h > 0 THEN SubSeq(next, h + 1, Len(next)) ELSE next

\* (changed) the loop never ends
HasNext_Always(d) == TRUE

\* while (data.next)
HasNext(d) == d.next # <<>>

\* (changed) the loop body runs once
HasRemaining_Never(d) == FALSE

\* (changed) while (data.remaining_count >= 0)
HasRemaining_OrZero(d) == d.remaining_count >= 0

\* while (data.remaining_count > 0)
HasRemaining(d) == d.remaining_count > 0

\* (changed) results = data.results: the earlier pages are forgotten
Concat_Replace(acc, more) == more

\* results = results.concat(data.results)
Concat(acc, more) == acc \o more

\* The walker's local variable data: the last response body, or the
\* synthetic first value.  next = <<>> stands for null.
NoData == [next |-> <<>>, remaining_count |-> 0, next_checkpoint |-> 0]
\* what a walk returned: nothing yet, or the results array
NoReturn == [done |-> FALSE, value |-> <<>>]

(* ---------------------------- tag operations -------------------------- *)
\* The read-modify-write operations on the tags of an entity.  Each starts
\* with the GET of getDetectionTags / getAccountTags / getHostTags; verb is
\* the verb of the gateway call under way.
addDetectionTags == [name |-> "addDetectionTags", verb |-> "GET",
                     path |-> TaggingPath("detection")]
addAccountTags == [name |-> "addAccountTags", verb |-> "GET",
                   path |-> TaggingPath("account")]
addHostTags == [name |-> "addHostTags", verb |-> "GET",
                path |-> TaggingPath("host")]
deleteDetectionTag == [name |-> "deleteDetectionTag", verb |-> "GET",
                       path |-> TaggingPath("detection")]
deleteAccountTag == [name |-> "deleteAccountTag", verb |-> "GET",
                     path |-> TaggingPath("account")]
deleteHostTag == [name |-> "deleteHostTag", verb |-> "GET",
                  path |-> TaggingPath("host")]
AddTagOps == {addDetectionTags, addAccountTags, addHostTags}
DeleteTagOps == {deleteDetectionTag, deleteAccountTag, deleteHostTag}
AddTagNames == {o.name : o \in AddTagOps}
DeleteTagNames == {o.name : o \in DeleteTagOps}
\* the entity a tag operation addresses (the kind is the second path part)
EntityOf(o) == o.path[2]

\* the value undefined as an element of an array
Undefined == "undefined"

\* The operations of the earlier client that read existingTags.tags although
\* existingTags is the array itself: the property is undefined.
ReadsTagsOfArray(v, name) ==
    v = 2 /\ name \in {"addDetectionTags", "deleteDetectionTag",
                        "deleteAccountTag"}

\* (changed) the tags read are forgotten
AddedTags_OnlySupplied(v, name, supplied, existing) == supplied

\* tags = tags.concat(existingTags): the supplied tags, then those read;
\* concat of a value that is no array appends that value
AddedTags(v, name, supplied, existing) ==
    IF ReadsTagsOfArray(v, name) THEN supplied \o <<Undefined>>
    ELSE supplied \o existing

\* existingTags.splice(i, 1), i counted from 1
Splice(s, i) == SubSeq(s, 1, i - 1) \o SubSeq(s, i + 1, Len(s))

RECURSIVE RemoveTag_Once(_, _, _)
\* (changed) the loop is left after the first splice
RemoveTag_Once(s, tag, i) ==
    IF i = 0 THEN s
    ELSE IF s[i] = tag THEN Splice(s, i) ELSE RemoveTag_Once(s, tag, i - 1)

RECURSIVE RemoveTag(_, _, _)
\* for (let i = existingTags.length - 1; i >= 0; i--)
\*   if (existingTags[i] == tag) existingTags.splice(i, 1);
\* what the array holds when the loop, about to test position i, is over
RemoveTag(s, tag, i) ==
    IF i = 0 THEN s
    ELSE RemoveTag(IF s[i] = tag THEN Splice(s, i) ELSE s, tag, i - 1)

VARIABLES
    variant,       \* which class definition the client object is built from
    version,       \* the constructor's version argument
    nowMs,         \* Date.now()
    token,         \* this.#token (NoToken = null)
    tokenRefresh,  \* this.#tokenRefresh
    pc,            \* per caller: where its gateway call stands
    op,            \* per caller: the public operation it called
    ret,           \* per caller: value #getToken returned, not yet assigned
    wake,          \* per caller: instant the #sleep timer fires
    req,           \* per caller: the resource request it sent
    thrown,        \* per caller: the error the transport rejected with
    err,           \* per caller: what its call rejected with
    trace,         \* per caller: the steps its current call has taken
    active,        \* the callers that use the client in this behaviour
    calls,         \* gateway calls started so far
    ticks,         \* idle periods so far
    oauthCalls,    \* OAuth2 requests sent so far
    exchanges,     \* successful exchanges so far
    lastCheck,     \* what the latest token check saw and decided
    lastExch,      \* the last successful exchange
    pages,         \* server: the result pages of the paginated collection
    feed,          \* server: how the event endpoints answer ("script" or "log")
    script,        \* server: the scripted answers of the event endpoints
    log,           \* server: the append-only event log
    appends,       \* events appended to the log so far
    data,          \* per caller: the walker's local variable data
    results,       \* per caller: the walker's local variable results
    fetches,       \* per caller: the URLs its walk has requested, in order
    returned,      \* per caller: what its walk returned
    walks,         \* walks started so far
    tags,          \* server: the tag list of every taggable entity
    bodyArg,       \* per caller: the body argument of the verb it entered
    given,         \* per caller: the tags argument of its tag operation
    existingTags,  \* per caller: the local variable existingTags
    latest,        \* per caller: the checkpoint its probe returned
    options        \* per caller: the options argument of its pagination walk

\* the client object's configuration, fixed by the constructor
config == <<variant, version, active>>
\* the records kept of the run
history == <<calls, ticks, oauthCalls, exchanges, lastCheck, lastExch>>

\* the server's resources
server == <<pages, feed, script, log, appends, tags>>
\* the local variables of the walks
walkers == <<data, results, fetches, returned, walks>>
\* the arguments and local variables of the other operations
locals == <<bodyArg, given, existingTags, latest, options>>

vars == <<variant, version, nowMs, token, tokenRefresh, pc, op, ret, wake,
          req, thrown, err, trace, active, calls, ticks, oauthCalls,
          exchanges, lastCheck, lastExch, pages, feed, script, log, appends,
          data, results, fetches, returned, walks, tags, bodyArg,
          given, existingTags, latest, options>>

NoReq == [method |-> "", url |-> <<>>, bearer |-> NoToken, sentAt |-> 0]
NoExch == [sec |-> 0, expiresIn |-> 0, tok |-> NoToken, by |-> 0]
NoCheck == [sec |-> 0, tok |-> NoToken, expiry |-> 0, refresh |-> FALSE]

InitWith(act) ==
    /\ variant \in Variants
    /\ version \in (IF variant = 1 THEN Versions ELSE {3})
    /\ nowMs = 0
    /\ token = NoToken
    /\ tokenRefresh = 0
    /\ pc = [c \in Callers |-> "idle"]
    /\ op = [c \in Callers |-> NoOp]
    /\ ret = [c \in Callers |-> NoToken]
    /\ wake = [c \in Callers |-> 0]
    /\ req = [c \in Callers |-> NoReq]
    /\ thrown = [c \in Callers |-> NoErr]
    /\ err = [c \in Callers |-> NoErr]
    /\ trace = [c \in Callers |-> <<>>]
    /\ active = act
    /\ calls = 0
    /\ ticks = 0
    /\ oauthCalls = 0
    /\ exchanges = 0
    /\ lastCheck = NoCheck
    /\ lastExch = NoExch

\* The walkers' local variables before any walk.
InitWalkers ==
    /\ data = [c \in Callers |-> NoData]
    /\ results = [c \in Callers |-> <<>>]
    /\ fetches = [c \in Callers |-> <<>>]
    /\ returned = [c \in Callers |-> NoReturn]
    /\ walks = 0

\* The arguments and locals of the other operations before any call.
InitLocals ==
    /\ bodyArg = [c \in Callers |-> NoBody]
    /\ given = [c \in Callers |-> <<>>]
    /\ existingTags = [c \in Callers |-> <<>>]
    /\ options = [c \in Callers |-> NoOptions]
    /\ latest = [c \in Callers |-> NoCheckpoint]

\* A server that has neither a paginated collection nor events nor tags.
NoServer ==
    /\ tags = NoTags
    /\ pages = <<>>
    /\ feed = "script"
    /\ script = <<>>
    /\ log = <<>>
    /\ appends = 0

\* One caller at a time: each call is awaited before the next one is made.
Init == InitWith({1}) /\ NoServer /\ InitWalkers /\ InitLocals

Settled(c) == pc[c] \in {"idle", "done", "failed"}

\* (changed) the assignment of the token waits for its turn like a timer or
\* a response: anything may run before it
Quiet_Never == TRUE

\* No continuation is waiting in the microtask queue.  The assignment
\* this.#token = await this.#getToken() continues in a microtask queued when
\* #getToken returns; it runs before any timer or response callback.
Quiet == \A d \in Callers : pc[d] # "assign"

\* (changed) a check that finds another caller's exchange under way sends no
\* OAuth2 request of its own
CheckToken_Deduplicated(c, o) ==
    /\ calls' = calls + 1
    /\ op' = [op EXCEPT ![c] = o]
    /\ req' = [req EXCEPT ![c] = NoReq]
    /\ thrown' = [thrown EXCEPT ![c] = NoErr]
    /\ err' = [err EXCEPT ![c] = NoErr]
    /\ ret' = [ret EXCEPT ![c] = NoToken]
    /\ lastCheck' = [sec |-> NowSec(nowMs), tok |-> token,
                     expiry |-> tokenRefresh,
                     refresh |-> NeedsRefresh(token, tokenRefresh, nowMs)]
    /\ IF NeedsRefresh(token, tokenRefresh, nowMs)
          /\ \A d \in Callers : pc[d] # "exchange"
       THEN /\ pc' = [pc EXCEPT ![c] = "exchange"]
            /\ oauthCalls' = oauthCalls + 1
            /\ trace' = [trace EXCEPT ![c] = <<"check", "oauth">>]
            /\ wake' = wake
       ELSE /\ pc' = [pc EXCEPT ![c] = "sleeping"]
            /\ oauthCalls' = oauthCalls
            /\ trace' = [trace EXCEPT ![c] = <<"check", "sleep">>]
            /\ wake' = [wake EXCEPT ![c] = nowMs + SleepTime]
    /\ UNCHANGED <<config, nowMs, token, tokenRefresh, ticks, exchanges,
                   lastExch>>

\* A verb is entered: it calls #checkToken, which evaluates its condition and
\* either sends the OAuth2 request (#getToken) or starts #sleep.  Everything
\* up to the first await runs in one step.
CheckToken(c, o) ==
    /\ calls' = calls + 1
    /\ op' = [op EXCEPT ![c] = o]
    /\ req' = [req EXCEPT ![c] = NoReq]
    /\ thrown' = [thrown EXCEPT ![c] = NoErr]
    /\ err' = [err EXCEPT ![c] = NoErr]
    /\ ret' = [ret EXCEPT ![c] = NoToken]
    /\ lastCheck' = [sec |-> NowSec(nowMs), tok |-> token,
                     expiry |-> tokenRefresh,
                     refresh |-> NeedsRefresh(token, tokenRefresh, nowMs)]
    /\ IF NeedsRefresh(token, tokenRefresh, nowMs)
       THEN /\ pc' = [pc EXCEPT ![c] = "exchange"]
            /\ oauthCalls' = oauthCalls + 1
            /\ trace' = [trace EXCEPT ![c] = <<"check", "oauth">>]
            /\ wake' = wake
       ELSE /\ pc' = [pc EXCEPT ![c] = "sleeping"]
            /\ oauthCalls' = oauthCalls
            /\ trace' = [trace EXCEPT ![c] = <<"check", "sleep">>]
            /\ wake' = [wake EXCEPT ![c] = nowMs + SleepTime]
    /\ UNCHANGED <<config, nowMs, token, tokenRefresh, ticks, exchanges,
                   lastExch>>

\* A public operation that makes one gateway call is called.
StartCall(c, o) ==
    /\ c \in active
    /\ Settled(c)
    /\ Quiet
    /\ calls < MaxCalls
    /\ CheckToken(c, o)
    /\ bodyArg' = [bodyArg EXCEPT ![c] = Body(o)]
    /\ UNCHANGED <<server, walkers, given, existingTags, latest, options>>

\* The OAuth2 endpoint answers 2xx with {access_token, expires_in}: the server
\* issues the token when the request arrives, the response is processed lat
\* milliseconds later; #getToken then stores the expiry, computed from the
\* clock at that moment, and returns the access token to #checkToken.
ExchangeOk(c, expiresIn, lat) ==
    /\ pc[c] = "exchange"
    /\ Quiet
    /\ nowMs' = nowMs + lat
    /\ LET t == [id |-> exchanges + 1, exp |-> nowMs + expiresIn * 1000]
       IN  /\ tokenRefresh' = GetTokenExpiry(variant, nowMs', expiresIn)
           /\ ret' = [ret EXCEPT ![c] = t]
           /\ lastExch' = [sec |-> NowSec(nowMs'), expiresIn |-> expiresIn,
                           tok |-> t, by |-> c]
    /\ exchanges' = exchanges + 1
    /\ pc' = [pc EXCEPT ![c] = "assign"]
    /\ UNCHANGED <<server, walkers, locals,
                   config, token, wake, op, req, thrown, err, trace,
                   calls, ticks, oauthCalls, lastCheck>>

\* (changed) the token is stored only when none is held
AssignToken_KeepsHeld(c) ==
    /\ pc[c] = "assign"
    /\ token' = (IF token = NoToken THEN ret[c] ELSE token)
    /\ wake' = [wake EXCEPT ![c] = nowMs + SleepTime]
    /\ trace' = [trace EXCEPT ![c] = Append(@, "sleep")]
    /\ pc' = [pc EXCEPT ![c] = "sleeping"]
    /\ UNCHANGED <<server, walkers, locals,
                   config, history, nowMs, tokenRefresh, op, ret, req, thrown,
                   err>>

\* this.#token = await this.#getToken(); then #sleep starts its timer.
AssignToken(c) ==
    /\ pc[c] = "assign"
    /\ token' = ret[c]
    /\ wake' = [wake EXCEPT ![c] = nowMs + SleepTime]
    /\ trace' = [trace EXCEPT ![c] = Append(@, "sleep")]
    /\ pc' = [pc EXCEPT ![c] = "sleeping"]
    /\ UNCHANGED <<server, walkers, locals,
                   config, history, nowMs, tokenRefresh, op, ret, req, thrown,
                   err>>

\* (changed) #checkToken swallows the failure and goes on to #sleep
ExchangeFail_Continue(c, e) ==
    /\ pc[c] = "exchange"
    /\ wake' = [wake EXCEPT ![c] = nowMs + SleepTime]
    /\ trace' = [trace EXCEPT ![c] = Append(@, "sleep")]
    /\ pc' = [pc EXCEPT ![c] = "sleeping"]
    /\ UNCHANGED <<server, walkers, locals,
                   config, history, nowMs, token, tokenRefresh, op, ret, req,
                   thrown, err>>

\* (changed) a failed exchange also forgets the held token
ExchangeFail_ClearsToken(c, e) ==
    /\ pc[c] = "exchange"
    /\ token' = NoToken
    /\ thrown' = [thrown EXCEPT ![c] = e]
    /\ err' = [err EXCEPT ![c] = VerbCatch(variant, op[c].verb, e)]
    /\ pc' = [pc EXCEPT ![c] = "failed"]
    /\ UNCHANGED <<server, walkers, locals,
                   config, history, nowMs, tokenRefresh, op, ret, wake, req,
                   trace>>

\* The exchange fails (with a response, or with none): #getToken and
\* #checkToken rethrow, and the verb's catch block decides what is delivered.
ExchangeFail(c, e) ==
    /\ pc[c] = "exchange"
    /\ Quiet
    /\ thrown' = [thrown EXCEPT ![c] = e]
    /\ err' = [err EXCEPT ![c] = VerbCatch(variant, op[c].verb, e)]
    /\ pc' = [pc EXCEPT ![c] = "failed"]
    /\ UNCHANGED <<server, walkers, locals,
                   config, history, nowMs, token, tokenRefresh, op, ret, wake,
                   req, trace>>

\* (changed) #sleep is not awaited: the request goes out at once
SleepEnd_NoWait(c) ==
    /\ pc[c] = "sleeping"
    /\ req' = [req EXCEPT ![c] =
                 [method |-> op[c].verb,
                  url |-> ApiURL(variant, version, op[c].path),
                  bearer |-> token, sentAt |-> nowMs]]
    /\ trace' = [trace EXCEPT ![c] = Append(@, "request")]
    /\ pc' = [pc EXCEPT ![c] = "request"]
    /\ UNCHANGED <<server, walkers, locals,
                   config, history, nowMs, token, tokenRefresh, op, ret, wake,
                   thrown, err>>

\* The #sleep timer fires (the earliest timer first; the clock moves to it),
\* #checkToken returns and the verb sends its request with the bearer header.
SleepEnd(c) ==
    /\ pc[c] = "sleeping"
    /\ Quiet
    /\ \A d \in Callers : pc[d] = "sleeping" => wake[c] <= wake[d]
    /\ LET t == IF wake[c] > nowMs THEN wake[c] ELSE nowMs
       IN  /\ nowMs' = t
           /\ req' = [req EXCEPT ![c] =
                        [method |-> op[c].verb,
                         url |-> ApiURL(variant, version, op[c].path),
                         bearer |-> token, sentAt |-> t]]
    /\ trace' = [trace EXCEPT ![c] = Append(@, "request")]
    /\ pc' = [pc EXCEPT ![c] = "request"]
    /\ UNCHANGED <<server, walkers, locals,
                   config, history, token, tokenRefresh, op, ret, wake,
                   thrown, err>>

\* The resource request of a single-call operation is answered 2xx: the verb
\* returns the body.
ResponseOk(c) ==
    /\ pc[c] = "request"
    /\ Quiet
    /\ op[c] \in Ops
    /\ pc' = [pc EXCEPT ![c] = "done"]
    /\ UNCHANGED <<server, walkers, locals,
                   config, history, nowMs, token, tokenRefresh, op, ret, wake,
                   req, thrown, err, trace>>

\* (changed) a walker catches the failure and returns what it has so far
ResponseFail_ReturnsPartial(c, e) ==
    /\ pc[c] = "request"
    /\ Quiet
    /\ thrown' = [thrown EXCEPT ![c] = e]
    /\ pc' = [pc EXCEPT ![c] = "done"]
    /\ returned' = [returned EXCEPT ![c] = [done |-> TRUE, value |-> results[c]]]
    /\ UNCHANGED <<server, data, results, fetches, walks, locals,
                   config, history, nowMs, token, tokenRefresh, op, ret, wake,
                   req, err, trace>>

\* (changed) the verb sends the failed request once more before giving up
ResponseFail_Retries(c, e) ==
    /\ pc[c] = "request"
    /\ Quiet
    /\ IF Len(trace[c]) < 5
       THEN /\ trace' = [trace EXCEPT ![c] = Append(@, "request")]
            /\ UNCHANGED <<pc, thrown, err>>
       ELSE /\ thrown' = [thrown EXCEPT ![c] = e]
            /\ err' = [err EXCEPT ![c] = VerbCatch(variant, op[c].verb, e)]
            /\ pc' = [pc EXCEPT ![c] = "failed"]
            /\ trace' = trace
    /\ UNCHANGED <<server, walkers, locals,
                   config, history, nowMs, token, tokenRefresh, op, ret, wake,
                   req>>

\* The resource request fails: the verb's catch block runs.
ResponseFail(c, e) ==
    /\ pc[c] = "request"
    /\ Quiet
    /\ thrown' = [thrown EXCEPT ![c] = e]
    /\ err' = [err EXCEPT ![c] = VerbCatch(variant, op[c].verb, e)]
    /\ pc' = [pc EXCEPT ![c] = "failed"]
    /\ UNCHANGED <<server, walkers, locals,
                   config, history, nowMs, token, tokenRefresh, op, ret, wake,
                   req, trace>>

\* Time passes while no call is under way.
Tick(d) ==
    /\ \A c \in Callers : Settled(c)
    /\ ticks < MaxTicks
    /\ ticks' = ticks + 1
    /\ nowMs' = nowMs + d
    /\ UNCHANGED <<server, walkers, locals,
                   config, token, tokenRefresh, pc, op, ret, wake, req, thrown,
                   err, trace, calls, oauthCalls, exchanges, lastCheck, lastExch>>

\* The ways the OAuth2 request can fail.
ExchangeFailures ==
    {NetworkErr(OAuthURL)} \cup {TransportErr(s, OAuthURL) : s \in AuthFailStatuses}

\* The ways the resource request of caller c can fail.
RequestFailures(c) ==
    {NetworkErr(req[c].url)} \cup {TransportErr(s, req[c].url) : s \in FailStatuses}

Next ==
    \/ \E c \in Callers, o \in Ops : StartCall(c, o)
    \/ \E c \in Callers, e \in ExpiresIns, l \in Latencies : ExchangeOk(c, e, l)
    \/ \E c \in Callers : AssignToken(c)
    \/ \E c \in Callers, e \in ExchangeFailures : ExchangeFail(c, e)
    \/ \E c \in Callers : SleepEnd(c)
    \/ \E c \in Callers : ResponseOk(c)
    \/ \E c \in Callers : \E e \in RequestFailures(c) : ResponseFail(c, e)
    \/ \E d \in TickSteps : Tick(d)

Spec == Init /\ [][Next]_vars

(* ------------------------------ the server ---------------------------- *)
\* the error of Object.keys(undefined)
TypeErr == [shape |-> "TypeError", hasResponse |-> FALSE, status |-> 0,
            statusText |-> "", url |-> <<>>]

\* Paginated collections the server may hold: the results array of each page.
PageScripts == {<< <<1, 2>>, <<3, 4>>, <<5>> >>, << <<1>>, <<>> >>, << <<>> >>}

\* Scripted answers of the event endpoints, given in this order whatever the
\* request asks for; the last one reports no remaining event.
EventScripts ==
    {<<[remaining_count |-> 5, next_checkpoint |-> 7, events |-> <<1, 2, 3, 4, 5>>],
       [remaining_count |-> 3, next_checkpoint |-> 4, events |-> <<6, 7, 8>>],
       [remaining_count |-> 0, next_checkpoint |-> 9, events |-> <<>>]>>,
     <<[remaining_count |-> 0, next_checkpoint |-> 1, events |-> <<1>>]>>}

\* the checkpoint argument: omitted (0 by default) or given
StartCheckpoints == {0, 2}

\* the event at position i of the log is the number i
LogOf(n) == [i \in 1..n |-> i]

\* The address at which the server serves page n of collection w, listed with
\* the query parameters pairs.
PageURL(w, n, pairs) ==
    ApiURL(variant, version,
           IF n = 1 THEN FirstPath(w, pairs) ELSE PagePath(w, n, pairs))

\* The body of page n: its results, and the fully-qualified address of the
\* following page (null on the last page).
PageBody(w, n, pairs) ==
    [results |-> pages[n],
     next |-> IF n < Len(pages) THEN PageURL(w, n + 1, pairs) ELSE <<>>]

\* The log server's answer to a request for the events after position cp:
\* at most ServerPage events, the position after the last one served, and
\* the number of events behind that position.
LogAnswer(lg, cp) ==
    LET head == Len(lg)
        last == IF cp + ServerPage < head THEN cp + ServerPage ELSE head
        nxt  == IF cp < head THEN last ELSE head
    IN  [events |-> IF cp < head THEN SubSeq(lg, cp + 1, last) ELSE <<>>,
         next_checkpoint |-> nxt,
         remaining_count |-> head - nxt]

\* An event is appended to the log while a checkpoint walk is under way
\* (events appended earlier are part of the log the walk starts with).
AppendEvent ==
    /\ feed = "log"
    /\ \E c \in Callers : op[c].name \in EventWalkNames /\ ~Settled(c)
    /\ appends < MaxAppends
    /\ appends' = appends + 1
    /\ log' = Append(log, Len(log) + 1)
    /\ UNCHANGED <<pages, feed, script, tags, walkers, locals, config,
                   history, nowMs,
                   token, tokenRefresh, pc, op, ret, wake, req, thrown, err,
                   trace>>

(* ------------------------------ the walks ----------------------------- *)
\* what the steps of a walk that make no gateway call leave alone
GatewayIdle == <<config, history, nowMs, token, tokenRefresh, ret, wake,
                 trace>>

\* The walker calls this.#get(path): the verb is entered, and the address the
\* verb will request is added to those the walk asked for so far.
Fetch(c, w, path, sofar) ==
    /\ CheckToken(c, [w EXCEPT !.path = path])
    /\ fetches' = [fetches EXCEPT ![c] =
                     Append(sofar, ApiURL(variant, version, path))]
    /\ bodyArg' = [bodyArg EXCEPT ![c] = NoBody]

RECURSIVE Flatten(_, _)
\* the items of the first k sequences of ss, in order
Flatten(ss, k) == IF k = 0 THEN <<>> ELSE Flatten(ss, k - 1) \o ss[k]

\* (changed) the accumulator is a field of the client object: a walk returns
\* what every walk has put there
Return_SharedResults(c, value) ==
    /\ pc' = [pc EXCEPT ![c] = "done"]
    /\ returned' = [returned EXCEPT ![c] =
                      [done |-> TRUE,
                       value |-> Flatten([d \in Callers |->
                                            IF d = c THEN value ELSE results[d]],
                                         NumCallers)]]
    /\ UNCHANGED <<GatewayIdle, op, req, thrown, err, fetches, bodyArg>>

\* The walker returns results.
Return(c, value) ==
    /\ pc' = [pc EXCEPT ![c] = "done"]
    /\ returned' = [returned EXCEPT ![c] = [done |-> TRUE, value |-> value]]
    /\ UNCHANGED <<GatewayIdle, op, req, thrown, err, fetches, bodyArg>>

\* getAllDetections(options) / getAllAccounts(options) / getAssignments() is
\* called: extra is
\* built from the options, data.next is the first page's path, and the loop
\* makes its first #get call.
BeginPageWalk(c, w, opts) ==
    /\ c \in active
    /\ Settled(c)
    /\ Quiet
    /\ w = getAssignments => (variant = 1 /\ opts = NoOptions)
    /\ walks' = walks + 1
    /\ results' = [results EXCEPT ![c] = <<>>]
    /\ returned' = [returned EXCEPT ![c] = NoReturn]
    /\ IF variant = 2 /\ ~opts.given
       THEN \* Object.keys(options) throws in the earlier client
            /\ data' = [data EXCEPT ![c] = NoData]
            /\ fetches' = [fetches EXCEPT ![c] = <<>>]
            /\ op' = [op EXCEPT ![c] = w]
            /\ req' = [req EXCEPT ![c] = NoReq]
            /\ thrown' = [thrown EXCEPT ![c] = TypeErr]
            /\ err' = [err EXCEPT ![c] = TypeErr]
            /\ pc' = [pc EXCEPT ![c] = "failed"]
            /\ UNCHANGED <<GatewayIdle, bodyArg>>
       ELSE LET first == FirstPath(w, opts.pairs)
            IN  /\ data' = [data EXCEPT ![c] = [NoData EXCEPT !.next = first]]
                /\ Fetch(c, w, StripNext(variant, first), <<>>)
    /\ options' = [options EXCEPT ![c] = opts]
    /\ UNCHANGED <<server, given, existingTags, latest>>

\* a pagination walk is started, within the bound on walks
StartPageWalk(c, w, opts) == walks < MaxWalks /\ BeginPageWalk(c, w, opts)

\* One page arrives: the results are appended, and the loop goes on with the
\* page the response names or, when next is null, the walker returns.
PageResponse(c) ==
    /\ pc[c] = "request"
    /\ Quiet
    /\ op[c].name \in PageWalkNames
    /\ \E w \in PageWalks, n \in 1..Len(pages), o \in Options :
         /\ req[c].url = PageURL(w, n, o.pairs)
         /\ LET body == PageBody(w, n, o.pairs)
                all == Concat(results[c], body.results)
            IN  /\ results' = [results EXCEPT ![c] = all]
                /\ data' = [data EXCEPT ![c] = [NoData EXCEPT !.next = body.next]]
                /\ IF HasNext(body)
                   THEN /\ Fetch(c, op[c], StripNext(variant, body.next),
                                 fetches[c])
                        /\ returned' = returned
                   ELSE Return(c, all)
    /\ UNCHANGED <<server, walks, given, existingTags, latest, options>>

\* getAccountChanges(checkpoint) / getDetectionChanges(checkpoint) is called:
\* data is the synthetic {remaining_count: 1, next_checkpoint: checkpoint} and
\* the loop makes its first #get call.
BeginEventWalk(c, w, cp) ==
    /\ c \in active
    /\ Settled(c)
    /\ Quiet
    /\ walks' = walks + 1
    /\ results' = [results EXCEPT ![c] = <<>>]
    /\ returned' = [returned EXCEPT ![c] = NoReturn]
    /\ data' = [data EXCEPT ![c] =
                  [NoData EXCEPT !.remaining_count = 1, !.next_checkpoint = cp]]
    /\ Fetch(c, w, EventsPath(variant, w, cp), <<>>)
    /\ options' = [options EXCEPT ![c] = NoOptions]
    /\ UNCHANGED <<server, given, existingTags, latest>>

\* a checkpoint walk is started, within the bound on walks
StartEventWalk(c, w, cp) == walks < MaxWalks /\ BeginEventWalk(c, w, cp)

\* The answers the server may give to the checkpoint fetch caller c has sent:
\* the scripted answer of that turn, or what the log holds after the position
\* the request names in its from parameter.
EventAnswers(c) ==
    IF feed = "script"
    THEN IF Len(fetches[c]) <= Len(script) THEN {script[Len(fetches[c])]} ELSE {}
    ELSE {LogAnswer(log, cp) :
            cp \in {k \in StartCheckpoints \cup (0..Len(log)) :
                      req[c].url = ApiURL(variant, version,
                                          EventsPath(1, WalkNamed(op[c].name), k))}}

\* One answer arrives: the events are appended, and the loop goes on from the
\* answer's next_checkpoint while its remaining_count is above zero.
EventsResponse(c) ==
    /\ pc[c] = "request"
    /\ Quiet
    /\ op[c].name \in EventWalkNames
    /\ \E body \in EventAnswers(c) :
         LET all == Concat(results[c], body.events)
             w == WalkNamed(op[c].name)
         IN  /\ results' = [results EXCEPT ![c] = all]
             /\ data' = [data EXCEPT ![c] =
                           [NoData EXCEPT
                              !.remaining_count = body.remaining_count,
                              !.next_checkpoint = body.next_checkpoint]]
             /\ IF HasRemaining(body)
                THEN /\ Fetch(c, w, EventsPath(variant, w, body.next_checkpoint),
                              fetches[c])
                     /\ returned' = returned
                ELSE Return(c, all)
    /\ UNCHANGED <<server, walks, given, existingTags, latest, options>>

\* getLatestAccountCheckpoint() / getLatestDetectionCheckpoint() is called:
\* it makes its first #get call, with the sentinel.
BeginProbe(c, w) ==
    /\ c \in active
    /\ Settled(c)
    /\ Quiet
    /\ variant = 1
    /\ walks' = walks + 1
    /\ results' = [results EXCEPT ![c] = <<>>]
    /\ returned' = [returned EXCEPT ![c] = NoReturn]
    /\ data' = [data EXCEPT ![c] = NoData]
    /\ latest' = [latest EXCEPT ![c] = NoCheckpoint]
    /\ Fetch(c, w, SentinelPath(w), <<>>)
    /\ options' = [options EXCEPT ![c] = NoOptions]
    /\ UNCHANGED <<server, given, existingTags>>

\* a probe is started, within the bound on walks
StartProbe(c, w) == walks < MaxWalks /\ BeginProbe(c, w)

\* The answers the server may give to the fetch the probe of caller c has
\* sent: the scripted answer of that turn, or what the log holds after the
\* position the request names (a position beyond the head of the log is
\* answered as the head itself is).
ProbeAnswers(c) ==
    LET w == ProbeNamed(op[c].name)
    IN  IF feed = "script" THEN EventAnswers(c)
        ELSE IF req[c].url = ApiURL(variant, version, SentinelPath(w))
        THEN {LogAnswer(log, Len(log))}
        ELSE {LogAnswer(log, cp) :
                cp \in {k \in 0..Len(log) :
                          req[c].url = ApiURL(variant, version,
                                              EventsPath(1, w, k))}}

\* An answer to a probe arrives: after the first one the probe makes its
\* second #get call, from the answer's next_checkpoint; after the second one
\* it returns the answer's next_checkpoint.
ProbeResponse(c) ==
    /\ pc[c] = "request"
    /\ Quiet
    /\ op[c].name \in ProbeNames
    /\ \E answer \in ProbeAnswers(c) :
         LET w == ProbeNamed(op[c].name)
         IN  /\ data' = [data EXCEPT ![c] =
                           [NoData EXCEPT
                              !.remaining_count = answer.remaining_count,
                              !.next_checkpoint = answer.next_checkpoint]]
             /\ IF Len(fetches[c]) = 1
                THEN /\ Fetch(c, w,
                              EventsPath(variant, w, answer.next_checkpoint),
                              fetches[c])
                     /\ latest' = latest
                ELSE /\ pc' = [pc EXCEPT ![c] = "done"]
                     /\ latest' = [latest EXCEPT ![c] = answer.next_checkpoint]
                     /\ UNCHANGED <<GatewayIdle, op, req, thrown, err,
                                    fetches, bodyArg>>
    /\ UNCHANGED <<server, results, returned, walks, given, existingTags,
                   options>>

\* The servers a walk may run against: one paginated collection, scripted
\* event answers, or an event log (which reads the from parameter, the one
\* the current client sends).
WalkServers ==
    \/ /\ pages \in PageScripts
       /\ feed = "script" /\ script = <<>> /\ log = <<>>
    \/ /\ pages = <<>>
       /\ feed = "script" /\ script \in EventScripts /\ log = <<>>
    \/ /\ pages = <<>>
       /\ feed = "log" /\ variant = 1 /\ script = <<>>
       /\ log \in {LogOf(n) : n \in 0..MaxLog}

InitWalk ==
    /\ InitWith({1}) /\ InitWalkers /\ InitLocals
    /\ WalkServers /\ appends = 0 /\ tags = NoTags

\* expires_in values of the exchanges made during walks: a token that is
\* renewed before every page, and one that lasts
WalkExpiresIns == {2, 200}

\* What the event loop runs for caller c when its response or timer is due.
\* During walks the OAuth2 response arrives without delay.
Callback(c) ==
    \/ \E e \in WalkExpiresIns : ExchangeOk(c, e, 0)
    \/ \E e \in ExchangeFailures : ExchangeFail(c, e)
    \/ AssignToken(c)
    \/ SleepEnd(c)
    \/ PageResponse(c)
    \/ EventsResponse(c)
    \/ \E e \in RequestFailures(c) : ResponseFail(c, e)

NextWalk ==
    \/ \E c \in Callers, w \in PageWalks, o \in Options : StartPageWalk(c, w, o)
    \/ \E c \in Callers, w \in EventWalks, cp \in StartCheckpoints :
         StartEventWalk(c, w, cp)
    \/ \E c \in Callers : Callback(c)
    \/ AppendEvent

\* Walks of one caller, one after the other.
SpecWalk == InitWalk /\ [][NextWalk]_vars

\* The same, with every due callback eventually run: the server answers each
\* request or the transport reports a failure, and timers fire.
SpecWalkFair == SpecWalk /\ WF_vars(\E c \in Callers : Callback(c))

\* The servers a probe may run against: scripted answers, or an event log.
InitProbe ==
    /\ InitWith({1}) /\ InitWalkers /\ InitLocals
    /\ variant = 1
    /\ pages = <<>> /\ appends = 0 /\ tags = NoTags
    /\ \/ feed = "script" /\ script \in EventScripts /\ log = <<>>
       \/ feed = "log" /\ script = <<>> /\ log \in {LogOf(n) : n \in 0..MaxLog}

\* Probes of one caller, one after the other.
NextProbe ==
    \/ \E c \in Callers, w \in Probes : StartProbe(c, w)
    \/ \E c \in Callers, e \in WalkExpiresIns : ExchangeOk(c, e, 0)
    \/ \E c \in Callers, e \in ExchangeFailures : ExchangeFail(c, e)
    \/ \E c \in Callers : AssignToken(c)
    \/ \E c \in Callers : SleepEnd(c)
    \/ \E c \in Callers : ProbeResponse(c)
    \/ \E c \in Callers : \E e \in RequestFailures(c) : ResponseFail(c, e)

SpecProbe == InitProbe /\ [][NextProbe]_vars

\* expires_in values of the exchanges made during walks whose token runs
\* out on the way: with 100 the current client, whose margin is 100, keeps
\* the token until the clock shows the next second, two fetches later, and
\* so does the earlier client with 0
RefreshExpiresIns == {0, 2, 100}

\* A collection of three pages, or three scripted answers.
InitRefresh ==
    /\ InitWith({1}) /\ InitWalkers /\ InitLocals
    /\ feed = "script" /\ log = <<>> /\ appends = 0 /\ tags = NoTags
    /\ \/ pages = << <<1, 2>>, <<3, 4>>, <<5>> >> /\ script = <<>>
       \/ /\ pages = <<>>
          /\ script \in {s \in EventScripts : Len(s) = 3}

\* Walks of one caller whose token may run out between two fetches.
NextRefresh ==
    \/ \E c \in Callers, w \in {getAllDetections, getAllAccounts} :
         StartPageWalk(c, w, EmptyOptions)
    \/ \E c \in Callers, w \in EventWalks : StartEventWalk(c, w, 0)
    \/ \E c \in Callers, e \in RefreshExpiresIns : ExchangeOk(c, e, 0)
    \/ \E c \in Callers : ExchangeFail(c, NetworkErr(OAuthURL))
    \/ \E c \in Callers : AssignToken(c)
    \/ \E c \in Callers : SleepEnd(c)
    \/ \E c \in Callers : PageResponse(c)
    \/ \E c \in Callers : EventsResponse(c)
    \/ \E c \in Callers : ResponseFail(c, NetworkErr(req[c].url))

SpecRefresh == InitRefresh /\ [][NextRefresh]_vars

(* --------------------------- tags on the server ----------------------- *)
\* tag lists an entity may have when the client is constructed
TagLists == {<<"a", "a", "b", "a">>, <<"b">>}
\* the tags arguments of addDetectionTags / addAccountTags / addHostTags
SuppliedTags == {<<"c">>, <<"d", "a">>}
\* the tag arguments of deleteDetectionTag / deleteAccountTag / deleteHostTag
DeletedTags == {"a", "c"}

\* A tag operation is called: getDetectionTags enters #get.  The tag of a
\* delete operation is kept as a list of one.
BeginTagOp(c, o, ts) ==
    /\ c \in active
    /\ Settled(c)
    /\ Quiet
    /\ EntityOf(o) = "host" => variant = 1
    /\ given' = [given EXCEPT ![c] = ts]
    /\ existingTags' = [existingTags EXCEPT ![c] = <<>>]
    /\ bodyArg' = [bodyArg EXCEPT ![c] = NoBody]
    /\ CheckToken(c, o)
    /\ UNCHANGED <<server, walkers, latest, options>>

\* The GET is answered with { tags: [...] }: getDetectionTags returns
\* data.tags, the operation computes the new list and enters #patch with
\* { tags: list }; the delete operations of the earlier client throw on
\* existingTags.tags.length instead.
TagsRead(c) ==
    /\ pc[c] = "request"
    /\ Quiet
    /\ op[c].name \in AddTagNames \cup DeleteTagNames
    /\ op[c].verb = "GET"
    /\ LET read == tags[EntityOf(op[c])]
       IN  /\ existingTags' = [existingTags EXCEPT ![c] = read]
           /\ IF op[c].name \in DeleteTagNames
                 /\ ReadsTagsOfArray(variant, op[c].name)
              THEN /\ thrown' = [thrown EXCEPT ![c] = TypeErr]
                   /\ err' = [err EXCEPT ![c] = TypeErr]
                   /\ pc' = [pc EXCEPT ![c] = "failed"]
                   /\ UNCHANGED <<GatewayIdle, op, req, bodyArg>>
              ELSE /\ bodyArg' = [bodyArg EXCEPT ![c] =
                        TagsBody(IF op[c].name \in AddTagNames
                                 THEN AddedTags(variant, op[c].name,
                                                given[c], read)
                                 ELSE RemoveTag(read, given[c][1], Len(read)))]
                   /\ CheckToken(c, [op[c] EXCEPT !.verb = "PATCH"])
    /\ UNCHANGED <<server, walkers, given, latest, options>>

\* (changed) the server adds the tags of the body to those it holds
TagsPatched_Merges(c) ==
    /\ pc[c] = "request"
    /\ Quiet
    /\ op[c].name \in AddTagNames \cup DeleteTagNames
    /\ op[c].verb = "PATCH"
    /\ tags' = [tags EXCEPT ![EntityOf(op[c])] = bodyArg[c].tags \o @]
    /\ pc' = [pc EXCEPT ![c] = "done"]
    /\ UNCHANGED <<pages, feed, script, log, appends, walkers, locals,
                   GatewayIdle, op, req, thrown, err>>

\* The PATCH is answered 2xx: the server has replaced the entity's tag list
\* by the list of the body, and the operation returns.
TagsPatched(c) ==
    /\ pc[c] = "request"
    /\ Quiet
    /\ op[c].name \in AddTagNames \cup DeleteTagNames
    /\ op[c].verb = "PATCH"
    /\ tags' = [tags EXCEPT ![EntityOf(op[c])] = bodyArg[c].tags]
    /\ pc' = [pc EXCEPT ![c] = "done"]
    /\ UNCHANGED <<pages, feed, script, log, appends, walkers, locals,
                   GatewayIdle, op, req, thrown, err>>

\* Every entity has the same tags at the start; two callers use the client.
InitTags ==
    /\ InitWith({1, 2}) /\ InitWalkers /\ InitLocals
    /\ tags \in {[e \in Entities |-> t] : t \in TagLists}
    /\ pages = <<>> /\ feed = "script" /\ script = <<>> /\ log = <<>>
    /\ appends = 0

\* Each of the two callers makes one tag operation, starting at any moment;
\* their gateway calls interleave at the awaits.  The token lasts, and a
\* request that fails does so without a response.
NextTags ==
    \/ \E c \in Callers, o \in AddTagOps, ts \in SuppliedTags :
         pc[c] = "idle" /\ BeginTagOp(c, o, ts)
    \/ \E c \in Callers, o \in DeleteTagOps, t \in DeletedTags :
         pc[c] = "idle" /\ BeginTagOp(c, o, <<t>>)
    \/ \E c \in Callers : ExchangeOk(c, 200, 0)
    \/ \E c \in Callers : ExchangeFail(c, NetworkErr(OAuthURL))
    \/ \E c \in Callers : AssignToken(c)
    \/ \E c \in Callers : SleepEnd(c)
    \/ \E c \in Callers : TagsRead(c)
    \/ \E c \in Callers : TagsPatched(c)
    \/ \E c \in Callers : ResponseFail(c, NetworkErr(req[c].url))

SpecTags == InitTags /\ [][NextTags]_vars

(* ------------------------------ helpers ------------------------------- *)
RECURSIVE Count(_, _)
\* how many times x occurs in the sequence s
Count(s, x) ==
    IF s = <<>> THEN 0 ELSE (IF Head(s) = x THEN 1 ELSE 0) + Count(Tail(s), x)

\* the step is a token check of caller c (the start of a gateway call)
IsCheckStep(c) == Settled(c) /\ ~Settled(c)'

\* caller c's call got past a token check that found the held token expired
RefreshedExpired(c) ==
    /\ pc[c] \in {"assign", "sleeping", "request", "done"}
    /\ lastCheck.refresh
    /\ lastCheck.tok # NoToken

(* ------------------------------- claims ------------------------------- *)

\* C1: while the held token's expiry instant is in the future, a token check
\* sends no OAuth2 request and leaves the token and its expiry unchanged; and
\* from a fresh client, when the second of two successive checks falls inside
\* the validity window, exactly one OAuth2 request has been sent in total.
C1_TokenCaching ==
    /\ [][\A c \in Callers :
            (IsCheckStep(c) /\ token # NoToken /\ NowSec(nowMs) < tokenRefresh)
                => /\ oauthCalls' = oauthCalls
                   /\ token' = token
                   /\ tokenRefresh' = tokenRefresh
                   /\ pc'[c] = "sleeping"]_vars
    /\ [](\A c \in Callers :
            (calls = 2 /\ lastCheck.tok # NoToken
                       /\ lastCheck.sec < lastCheck.expiry)
                => (oauthCalls = 1 /\ Count(trace[c], "oauth") = 0))

\* C1 witness: the second call of a fresh client completed on the cached token.
C1_Witness ==
    /\ calls = 2
    /\ pc[1] = "done"
    /\ lastCheck.tok # NoToken
    /\ lastCheck.sec < lastCheck.expiry
    /\ oauthCalls = 1
    /\ req[1].bearer = lastCheck.tok

\* C2: when the held token's expiry instant has passed, one token check sends
\* exactly one OAuth2 request, the token becomes the returned access_token, and
\* the expiry instant becomes now + expires_in - margin, now being the second
\* in which the response is processed; the margin is 100 seconds in the current
\* client and 0 in the earlier class.
C2_TokenRefresh ==
    \A c \in Callers :
        RefreshedExpired(c) =>
            /\ Count(trace[c], "oauth") = 1
            /\ lastExch.by = c
            /\ lastExch.tok # lastCheck.tok
            /\ tokenRefresh = lastExch.sec + lastExch.expiresIn
                                - (IF variant = 1 THEN 100 ELSE 0)
            /\ pc[c] = "assign" => (ret[c] = lastExch.tok /\ lastExch.sec = NowSec(nowMs))
            /\ pc[c] # "assign" => token = lastExch.tok
            /\ pc[c] \in {"request", "done"} => req[c].bearer = lastExch.tok

\* C2 witness: a call that found the token expired completed with the new one.
C2_Witness ==
    /\ RefreshedExpired(1)
    /\ pc[1] = "done"
    /\ lastCheck.expiry < lastCheck.sec
    /\ token = lastExch.tok
    /\ lastExch.expiresIn > 100

\* C3: a token check performs the exchange whenever no token is held or
\* now >= expiresAt; in particular the token is not reused at now = expiresAt.
C3_RefreshBoundary ==
    calls > 0 =>
        ((lastCheck.tok = NoToken \/ lastCheck.sec >= lastCheck.expiry)
            => lastCheck.refresh)

\* C3 failing input: the token is reused by a check made in the very second
\* stored as its expiry.
C3_Reused ==
    /\ calls > 0
    /\ lastCheck.tok # NoToken
    /\ lastCheck.sec = lastCheck.expiry
    /\ ~lastCheck.refresh

\* C4 (as claimed): after every successful exchange the stored expiry instant
\* is not earlier than the instant of the exchange, and it is exactly that
\* instant when expires_in <= margin.
C4_ExpiryClamp ==
    \A c \in Callers :
        pc[c] = "assign" =>
            /\ tokenRefresh >= lastExch.sec
            /\ lastExch.expiresIn <= MarginOf(variant) => tokenRefresh = lastExch.sec

\* C4 (amended): the stored expiry instant is now + expires_in - margin with no
\* clamp, so it is earlier than the instant of the exchange exactly when
\* expires_in < margin; and whenever the last exchange had expires_in < margin,
\* the next token check refreshes.
C4_ExpiryUnclamped ==
    /\ [](\A c \in Callers :
            pc[c] = "assign" =>
                /\ tokenRefresh = lastExch.sec + lastExch.expiresIn
                                    - (IF variant = 1 THEN 100 ELSE 0)
                /\ (tokenRefresh < lastExch.sec)
                      <=> (lastExch.expiresIn < (IF variant = 1 THEN 100 ELSE 0)))
    /\ [][\A c \in Callers :
            (IsCheckStep(c) /\ exchanges > 0
                /\ lastExch.expiresIn < (IF variant = 1 THEN 100 ELSE 0))
                => (pc'[c] = "exchange" /\ oauthCalls' = oauthCalls + 1)]_vars

\* C4 witness: a token whose expires_in was below the margin was held, and the
\* next check asked for a new one.
C4_Witness ==
    /\ pc[1] = "exchange"
    /\ lastCheck.tok # NoToken
    /\ lastCheck.tok = lastExch.tok
    /\ lastExch.expiresIn < 100
    /\ tokenRefresh < lastExch.sec
    /\ lastCheck.refresh

\* C5: whenever a resource request is sent, the bearer token it carries has
\* not yet reached its server-side expiry (issue instant + expires_in),
\* provided expires_in exceeds the throttle delay.
C5_NoExpiredTokenInFlight ==
    \A c \in Callers :
        (pc[c] = "request" /\ req[c].bearer = lastExch.tok
            /\ lastExch.expiresIn * 1000 > SleepTime)
            => req[c].sentAt < req[c].bearer.exp

\* C5 in the current client only (margin 100): not a claim's formula; it shows
\* which class the violation of C5 comes from.
C5_CurrentClientOnly ==
    variant = 1 => C5_NoExpiredTokenInFlight

\* the two complete step sequences of a gateway call
FullTraces == {<<"check", "sleep", "request">>,
               <<"check", "oauth", "sleep", "request">>}

\* s is an initial part of t
IsPrefix(s, t) == Len(s) <= Len(t) /\ SubSeq(t, 1, Len(s)) = s

\* C6: every call of each of the five verbs that gets a valid token performs,
\* in this order and once each, the token check (with the exchange if needed),
\* the throttle sleep and one resource request carrying the bearer token; the
\* request is never sent before the sleep is over.
C6_CallOrdering ==
    \A c \in Callers :
        /\ \E t \in FullTraces : IsPrefix(trace[c], t)
        /\ req[c] # NoReq <=> (trace[c] # <<>> /\ trace[c][Len(trace[c])] = "request")
        /\ pc[c] \in {"request", "done"} => trace[c] \in FullTraces
        /\ req[c] # NoReq =>
              /\ op[c].verb \in Verbs
              /\ req[c].method = op[c].verb
              /\ req[c].bearer # NoToken
              /\ req[c].sentAt >= wake[c]
              /\ wake[c] >= SleepTime

\* C6 witness: a DELETE call completed after exchange, sleep and request.
C6_Witness ==
    /\ pc[1] = "done"
    /\ op[1].verb = "DELETE"
    /\ trace[1] = <<"check", "oauth", "sleep", "request">>
    /\ req[1].sentAt = wake[1]

\* caller c's call failed at the resource request / at the OAuth2 exchange
RequestFailed(c) == pc[c] = "failed" /\ req[c] # NoReq
ExchangeFailed(c) == pc[c] = "failed" /\ req[c] = NoReq

\* C7: for each of the five verbs, when the transport's failure carries a
\* response, the caller receives exactly the normalized object
\* {status, statusText, url} of that response, never the transport's error.
C7_ErrorNormalization ==
    \A c \in Callers :
        (RequestFailed(c) /\ thrown[c].hasResponse) =>
            err[c] = [shape |-> "normalized", hasResponse |-> FALSE,
                      status |-> thrown[c].status,
                      statusText |-> thrown[c].statusText,
                      url |-> req[c].url]

\* C8: in the current client, getDetection(id) answered 404 fails with the
\* object carrying status 404 and the requested URL, and a failure with no
\* response fails with the transport's own error; in both classes the two
\* failures are different and the second is not of the normalized shape.
C8_ErrorKinds ==
    \A c \in Callers :
        (RequestFailed(c) /\ op[c] = getDetection) =>
            /\ (variant = 1 /\ thrown[c].hasResponse /\ thrown[c].status = 404) =>
                  err[c] = [shape |-> "normalized", hasResponse |-> FALSE,
                            status |-> 404, statusText |-> "Not Found",
                            url |-> SiteURL \o <<"api",
                                       IF version = 3 THEN "v3" ELSE "v2",
                                       "detections", DetectionID>>]
            /\ ~thrown[c].hasResponse =>
                  /\ err[c] = thrown[c]
                  /\ err[c].shape = "transport"
                  /\ err[c] # [shape |-> "normalized", hasResponse |-> FALSE,
                               status |-> 404, statusText |-> "Not Found",
                               url |-> req[c].url]
            /\ thrown[c].hasResponse => (err[c].status = thrown[c].status
                                         /\ err[c].url = req[c].url)

\* C8 witness: getDetection of the current client failed on a 404.
C8_Witness ==
    /\ variant = 1
    /\ RequestFailed(1)
    /\ op[1] = getDetection
    /\ err[1].shape = "normalized"
    /\ err[1].status = 404

\* C8 witness of the other kind: the same call failed with no response.
C8_WitnessNetwork ==
    /\ variant = 1
    /\ RequestFailed(1)
    /\ op[1] = getDetection
    /\ err[1].shape = "transport"
    /\ ~err[1].hasResponse

\* the kind of an error object, as a caller can tell it
Kind(e) == <<e.shape, e.hasResponse>>

C10_TokenFrame ==
    [][/\ tokenRefresh' # tokenRefresh =>
            \E c \in Callers : /\ pc[c] = "exchange" /\ pc'[c] = "assign"
                                /\ exchanges' = exchanges + 1
       /\ token' # token =>
            \E c \in Callers : /\ pc[c] = "assign" /\ pc'[c] = "sleeping"
                                /\ token' = ret[c]
                                /\ ret[c].id \in 1..exchanges
       /\ \A c \in Callers :
            (pc[c] = "exchange" /\ pc'[c] = "failed")
                => (token' = token /\ tokenRefresh' = tokenRefresh)
       /\ \A c \in Callers :
            (pc'[c] # pc[c] /\ (pc[c] = "request" \/ pc'[c] = "request"))
                => (token' = token /\ tokenRefresh' = tokenRefresh)]_vars

\* C10 witness: an exchange failed while an expired token was held, and the
\* token is still the one held before.
C10_Witness ==
    /\ ExchangeFailed(1)
    /\ token # NoToken
    /\ token = lastCheck.tok
    /\ tokenRefresh = lastCheck.expiry


(* --------------------------- concurrent walks ------------------------- *)
\* The server the concurrent walks run against: a collection of two pages
\* and an event endpoint that gives two scripted answers to every walk.
ConcurrentServer ==
    /\ pages = << <<1, 2>>, <<3>> >>
    /\ feed = "script"
    /\ script = <<[remaining_count |-> 1, next_checkpoint |-> 1,
                   events |-> <<1>>],
                  [remaining_count |-> 0, next_checkpoint |-> 2,
                   events |-> <<2>>]>>
    /\ log = <<>>
    /\ appends = 0
    /\ tags = NoTags

\* expires_in values of the exchanges made during concurrent walks
ConcurrentExpiresIns == {2, 200}

\* Two callers use the client object.
InitConcurrent ==
    InitWith({1, 2}) /\ InitWalkers /\ InitLocals /\ ConcurrentServer

\* Each of the two callers makes one walk, starting at any moment; their
\* gateway calls interleave at the awaits.  A request that fails does so
\* without a response.
NextConcurrent ==
    \/ \E c \in Callers :
         pc[c] = "idle" /\ BeginPageWalk(c, getAllDetections, EmptyOptions)
    \/ \E c \in Callers :
         pc[c] = "idle" /\ BeginEventWalk(c, getAccountChanges, 0)
    \/ \E c \in Callers, e \in ConcurrentExpiresIns, l \in Latencies :
         ExchangeOk(c, e, l)
    \/ \E c \in Callers : ExchangeFail(c, NetworkErr(OAuthURL))
    \/ \E c \in Callers : AssignToken(c)
    \/ \E c \in Callers : SleepEnd(c)
    \/ \E c \in Callers : PageResponse(c)
    \/ \E c \in Callers : EventsResponse(c)
    \/ \E c \in Callers : ResponseFail(c, NetworkErr(req[c].url))

SpecConcurrent == InitConcurrent /\ [][NextConcurrent]_vars

(* -------------------------- claims on the walks ----------------------- *)
\* caller c's current or last operation is a pagination walk
IsPageWalk(c) == op[c].name \in PageWalkNames
\* caller c's current or last operation is a checkpoint walk
IsEventWalk(c) == op[c].name \in EventWalkNames
\* the responses the walk of caller c has received so far
Received(c) ==
    IF pc[c] = "done" \/ fetches[c] = <<>> THEN Len(fetches[c])
    ELSE Len(fetches[c]) - 1

\* C11: against a server holding n pages, a pagination walk has at every
\* moment accumulated exactly the results of the pages it has received, in
\* page order (nothing dropped, duplicated or reordered), it never makes more
\* than n fetch calls, and when it returns it has made exactly n fetch calls
\* and returns the concatenation of the n results arrays.
C11_PaginationResult ==
    \A c \in Callers :
        IsPageWalk(c) /\ pages # <<>> =>
            /\ Len(fetches[c]) <= Len(pages)
            /\ results[c] = Flatten(pages, Received(c))
            /\ returned[c].done =>
                  /\ pc[c] = "done"
                  /\ Len(fetches[c]) = Len(pages)
                  /\ returned[c].value = Flatten(pages, Len(pages))

\* pages of length 2, 2, 1 have given a 5-element sequence after 3 fetches
C11_Witness ==
    \E c \in Callers :
        /\ IsPageWalk(c)
        /\ pages = << <<1, 2>>, <<3, 4>>, <<5>> >>
        /\ returned[c] = [done |-> TRUE, value |-> <<1, 2, 3, 4, 5>>]
        /\ Len(fetches[c]) = 3

\* C12: whenever a pagination walk goes on from a response whose next is a
\* fully-qualified URL, the request for the following page addresses exactly
\* that URL, {siteURL}/api/{version}{path and query of next}, with the API
\* prefix once, whatever version the client was constructed with.
C12_NextDereference ==
    \A c \in Callers :
        IsPageWalk(c) /\ Len(fetches[c]) >= 2 /\ data[c].next # <<>> =>
            /\ fetches[c][Len(fetches[c])] = data[c].next
            /\ pc[c] = "request" => req[c].url = data[c].next


\* caller c receives a page or an answer in this step
GetsResponse(c) == pc[c] = "request" /\ pc'[c] \notin {"request", "failed"}

\* C13: a pagination walk returns in the very step in which a response with
\* next = null arrives, without another fetch, and goes on with one more
\* fetch otherwise; once it has returned it fetches nothing more; and every
\* walk under way eventually ends (the servers' collections are finite, so a
\* response with next = null eventually comes unless a request fails).
C13_PaginationTermination ==
    /\ [][\A c \in Callers :
            /\ IsPageWalk(c) /\ GetsResponse(c) =>
                  IF data'[c].next = <<>>
                  THEN /\ pc'[c] = "done"
                       /\ returned'[c].done
                       /\ fetches'[c] = fetches[c]
                       /\ calls' = calls
                  ELSE /\ ~Settled(c)'
                       /\ Len(fetches'[c]) = Len(fetches[c]) + 1
            /\ IsPageWalk(c) /\ pc[c] = "done" /\ walks' = walks =>
                  /\ pc'[c] = "done"
                  /\ fetches'[c] = fetches[c]
                  /\ calls' = calls]_vars
    /\ \A c \in Callers : (IsPageWalk(c) /\ ~Settled(c)) ~> Settled(c)

\* a walk has returned on the null next of the last of several pages
C13_Witness ==
    \E c \in Callers :
        /\ IsPageWalk(c)
        /\ pc[c] = "done"
        /\ data[c].next = <<>>
        /\ Len(fetches[c]) = Len(pages)
        /\ Len(pages) > 1


\* the address of the events after checkpoint cp, for the walker of caller c
CheckpointURL(c, cp) ==
    SiteURL \o <<"api", VersionSegment(variant, version)>>
            \o WalkNamed(op[c].name).path
            \o <<"?limit=1000",
                 (IF variant = 1 THEN "&from=" ELSE "&since=") \o ToString(cp)>>

\* the last element of a non-empty sequence
Last(s) == s[Len(s)]

\* the events of all the scripted answers, in order
ScriptEvents == Flatten([i \in 1..Len(script) |-> script[i].events], Len(script))

\* C14: the first fetch of a checkpoint walk asks for the events after the
\* caller's start checkpoint, and every later fetch asks for the events after
\* the next_checkpoint of the response just received (the walker's data holds
\* the start checkpoint, then the last response); against scripted answers
\* the walk makes one fetch per answer up to the first remaining_count = 0 and
\* returns the events in arrival order (5, 3, 0 events: 3 fetches, 8 events).
C14_CheckpointChaining ==
    /\ [][\A c \in Callers :
            IsEventWalk(c)' /\ walks' # walks /\ ~Settled(c)' =>
                /\ data'[c].next_checkpoint \in StartCheckpoints
                /\ (fetches[c] = <<CheckpointURL(c, data[c].next_checkpoint)>>)']_vars
    /\ [](\A c \in Callers :
            /\ IsEventWalk(c) /\ pc[c] # "done" =>
                  Last(fetches[c]) = CheckpointURL(c, data[c].next_checkpoint)
            /\ IsEventWalk(c) /\ pc[c] = "request" =>
                  req[c].url = CheckpointURL(c, data[c].next_checkpoint)
            /\ IsEventWalk(c) /\ feed = "script" /\ returned[c].done =>
                  /\ Len(fetches[c]) = Len(script)
                  /\ returned[c].value = ScriptEvents)

\* answers with 5, 3 and 0 events have been walked from checkpoint 2: the
\* fetches asked from 2, then 7, then 4, and 8 events were returned in order
C14_Witness ==
    \E c \in Callers :
        /\ IsEventWalk(c)
        /\ Len(script) = 3
        /\ fetches[c] = <<CheckpointURL(c, 2), CheckpointURL(c, 7),
                          CheckpointURL(c, 4)>>
        /\ returned[c] = [done |-> TRUE, value |-> <<1, 2, 3, 4, 5, 6, 7, 8>>]


\* C15: a checkpoint walk makes its first fetch when it is called, whatever
\* the start checkpoint; after every response it goes on with exactly one
\* more fetch when the response's remaining_count is above zero and returns at
\* once, without another fetch, when it is zero; a returned walk fetches
\* nothing more; and every walk under way eventually ends (the server reports
\* zero remaining events once the log stops growing).
C15_CheckpointTermination ==
    /\ [][\A c \in Callers :
            /\ IsEventWalk(c)' /\ walks' # walks => Len(fetches'[c]) = 1
            /\ IsEventWalk(c) /\ GetsResponse(c) =>
                  IF data'[c].remaining_count > 0
                  THEN /\ ~Settled(c)'
                       /\ Len(fetches'[c]) = Len(fetches[c]) + 1
                  ELSE /\ pc'[c] = "done"
                       /\ returned'[c].done
                       /\ fetches'[c] = fetches[c]
                       /\ calls' = calls
            /\ IsEventWalk(c) /\ pc[c] = "done" /\ walks' = walks =>
                  /\ pc'[c] = "done"
                  /\ fetches'[c] = fetches[c]
                  /\ calls' = calls]_vars
    /\ \A c \in Callers : (IsEventWalk(c) /\ ~Settled(c)) ~> Settled(c)

\* a walk over a log that grew meanwhile has returned on the first answer
\* with remaining_count = 0, after several fetches
C15_Witness ==
    \E c \in Callers :
        /\ IsEventWalk(c)
        /\ feed = "log"
        /\ appends > 0
        /\ pc[c] = "done"
        /\ data[c].remaining_count = 0
        /\ Len(fetches[c]) > 1


\* the start checkpoint of the checkpoint walk of caller c (from its first fetch)
StartOf(c) ==
    CHOOSE cp \in StartCheckpoints : fetches[c][1] = CheckpointURL(c, cp)

\* C16: against the event log, a checkpoint walk started at position s has at
\* every moment accumulated the events from position s + 1 up to the
\* next_checkpoint of its last response, each once and in log order, and in
\* the step in which it returns it returns every event after s up to the
\* head of the log at that fetch, also when events were appended during the
\* walk.
C16_AllChangesOnce ==
    /\ [](\A c \in Callers :
            IsEventWalk(c) /\ feed = "log" /\ Received(c) > 0 =>
                results[c] = SubSeq(log, StartOf(c) + 1, data[c].next_checkpoint))
    /\ [][\A c \in Callers :
            IsEventWalk(c) /\ feed = "log" /\ pc[c] = "request"
                /\ pc'[c] = "done" =>
                /\ returned'[c].done
                /\ returned'[c].value = SubSeq(log, StartOf(c) + 1, Len(log))]_vars

\* a walk from position 2 has returned events 3, 4, 5 in two fetches, two of
\* them appended while it was under way
C16_Witness ==
    \E c \in Callers :
        /\ IsEventWalk(c)
        /\ feed = "log"
        /\ appends = 2
        /\ Len(fetches[c]) = 2
        /\ returned[c] = [done |-> TRUE, value |-> <<3, 4, 5>>]


\* caller c's current or last operation is a walk
IsWalk(c) == IsPageWalk(c) \/ IsEventWalk(c)

\* the token exchange or the resource request of caller c fails in this step
FetchFails(c) == pc[c] \in {"exchange", "request"} /\ pc'[c] = "failed"

\* C17: when the token exchange or the request of any fetch of a walk fails,
\* the walk fails in that step with the error its gateway call delivers,
\* nothing more is fetched afterwards and nothing is returned, whatever was
\* accumulated; a walk that returns something has ended normally on the last
\* page (next = null) or answer (remaining_count = 0) and returns everything
\* it accumulated, which against a fixed collection or script is the complete
\* sequence.
C17_AllOrNothing ==
    /\ [][\A c \in Callers :
            /\ IsWalk(c) /\ FetchFails(c) =>
                  /\ thrown'[c] # NoErr
                  /\ err'[c] = VerbCatch(variant, "GET", thrown'[c])
                  /\ returned'[c] = NoReturn
                  /\ fetches'[c] = fetches[c]
                  /\ calls' = calls
            /\ IsWalk(c) /\ pc[c] = "failed" /\ walks' = walks =>
                  /\ pc'[c] = "failed"
                  /\ returned'[c] = NoReturn
                  /\ err'[c] = err[c]
                  /\ fetches'[c] = fetches[c]
                  /\ calls' = calls]_vars
    /\ [](\A c \in Callers :
            /\ IsWalk(c) /\ pc[c] # "done" => returned[c] = NoReturn
            /\ IsWalk(c) /\ pc[c] = "done" =>
                  /\ returned[c] = [done |-> TRUE, value |-> results[c]]
                  /\ err[c] = NoErr
                  /\ IsPageWalk(c) =>
                        /\ data[c].next = <<>>
                        /\ returned[c].value = Flatten(pages, Len(pages))
                  /\ IsEventWalk(c) => data[c].remaining_count = 0
                  /\ IsEventWalk(c) /\ feed = "script" =>
                        returned[c].value = ScriptEvents)

\* a walk has failed on a later page, after results were accumulated, and
\* returned nothing
C17_Witness ==
    \E c \in Callers :
        /\ IsWalk(c)
        /\ pc[c] = "failed"
        /\ Len(fetches[c]) > 1
        /\ req[c].url = Last(fetches[c])
        /\ results[c] # <<>>
        /\ returned[c] = NoReturn
        /\ err[c] # NoErr


\* caller c takes a step
Steps(c) == pc'[c] # pc[c] \/ op'[c] # op[c] \/ fetches'[c] # fetches[c]

\* C18: when two walks run concurrently on one client object, a step of one
\* walk leaves the cursor, the checkpoint, the accumulator and the fetches of
\* the other untouched; each walk asks for the page or checkpoint its own last
\* response named, accumulates exactly what its own responses carried, and
\* returns what it returns when run alone: all pages of the collection in
\* order, or all events of the scripted answers in order.
C18_IndependentCursors ==
    /\ [][\A c, d \in Callers :
            c # d /\ Steps(c) /\ ~Steps(d) =>
                /\ data'[d] = data[d]
                /\ results'[d] = results[d]
                /\ fetches'[d] = fetches[d]
                /\ returned'[d] = returned[d]]_vars
    /\ [](\A c \in Callers :
            /\ IsPageWalk(c) =>
                  /\ Len(fetches[c]) <= Len(pages)
                  /\ results[c] = Flatten(pages, Received(c))
                  /\ Len(fetches[c]) >= 2 /\ data[c].next # <<>> =>
                        Last(fetches[c]) =
                            ApiURL(variant, version, StripNext(variant, data[c].next))
                  /\ returned[c].done =>
                        /\ Len(fetches[c]) = Len(pages)
                        /\ returned[c].value = Flatten(pages, Len(pages))
            /\ IsEventWalk(c) =>
                  /\ pc[c] # "done" =>
                        Last(fetches[c]) = CheckpointURL(c, data[c].next_checkpoint)
                  /\ results[c] =
                        Flatten([i \in 1..Len(script) |-> script[i].events],
                                Received(c))
                  /\ returned[c].done =>
                        /\ Len(fetches[c]) = Len(script)
                        /\ returned[c].value = ScriptEvents)

\* a pagination walk and a checkpoint walk are both waiting for their second
\* response, each with its own cursor and its own first results
C18_Witness ==
    /\ IsPageWalk(1) /\ IsEventWalk(2)
    /\ pc[1] = "request" /\ pc[2] = "request"
    /\ Len(fetches[1]) = 2 /\ Len(fetches[2]) = 2
    /\ results[1] = <<1, 2>> /\ results[2] = <<1>>
    /\ data[1].next # <<>> /\ data[2].next_checkpoint = 1


\* the callers whose OAuth2 request is under way
Exchanging == {c \in Callers : pc[c] = "exchange"}

\* C19: every token check that finds the token missing or expired sends its
\* own OAuth2 request, also while the requests of other callers are under
\* way, so that k such checks made before any exchange completes give k
\* requests under way at once (the requests sent are those answered, those
\* failed and those under way, one per caller); every exchange that succeeds
\* writes its token to the shared field, which holds the token written last.
C19_NoRefreshDeduplication ==
    /\ [][\A c \in Callers :
            /\ calls' = calls + 1 /\ pc'[c] # pc[c]
                /\ (token = NoToken \/ tokenRefresh < nowMs \div 1000) =>
                  /\ pc'[c] = "exchange"
                  /\ oauthCalls' = oauthCalls + 1
                  /\ Exchanging' = Exchanging \cup {c}
            /\ pc[c] = "assign" /\ pc'[c] # "assign" =>
                  /\ token' = ret[c]
                  /\ token' = lastExch.tok]_vars
    /\ [](/\ oauthCalls = exchanges + Cardinality(Exchanging)
                            + Cardinality({c \in Callers : ExchangeFailed(c)})
          /\ Quiet => token = lastExch.tok)

\* both callers found the held token expired before either exchange
\* completed: two OAuth2 requests are under way at once
C19_Witness ==
    /\ Exchanging = {1, 2}
    /\ token # NoToken
    /\ tokenRefresh < nowMs \div 1000
    /\ oauthCalls = exchanges + 2


\* the current gateway call of caller c made a token exchange
Refreshed(c) == Len(trace[c]) >= 2 /\ trace[c][2] = "oauth"

\* C20: under every interleaving of two callers, a gateway call that
\* refreshed the token sends its resource request with the token the shared
\* field holds at that moment, which is not null, was returned by one of the
\* successful exchanges (the one written last, not an earlier one) and has
\* not reached its server-side expiry at the instant of sending.
C20_RefreshNotCorrupting ==
    /\ [][\A c \in Callers :
            Refreshed(c) /\ pc[c] = "sleeping" /\ pc'[c] = "request" =>
                /\ req'[c].bearer = token
                /\ token # NoToken
                /\ token = lastExch.tok
                /\ token.id \in 1..exchanges
                /\ req'[c].sentAt = nowMs'
                /\ nowMs' < token.exp]_vars
    /\ [](\A c \in Callers :
            Refreshed(c) /\ pc[c] = "request" =>
                /\ req[c].bearer # NoToken
                /\ req[c].bearer.id \in 1..exchanges
                /\ req[c].sentAt < req[c].bearer.exp)

\* both callers refreshed a held, expired token at the same time and both
\* sent their requests with the token written last, one of them with the
\* token of the other's exchange
C20_Witness ==
    /\ Refreshed(1) /\ Refreshed(2)
    /\ pc[1] = "request" /\ pc[2] = "request"
    /\ lastCheck.tok # NoToken
    /\ req[1].bearer = token /\ req[2].bearer = token
    /\ ret[1] # ret[2]
    /\ ret[1] # NoToken /\ ret[2] # NoToken

(* ----------------------- claims on single operations ------------------ *)
\* C21: a gateway call sends at most one OAuth2 request and at most one
\* resource request; the step in which either request fails sends nothing,
\* ends the call and delivers the failure to the caller, and a failed call
\* sends nothing afterwards (the next request belongs to the next call).
C21_NoRetry ==
    /\ [][\A c \in Callers :
            /\ FetchFails(c) =>
                  /\ oauthCalls' = oauthCalls
                  /\ req'[c] = req[c]
                  /\ trace'[c] = trace[c]
                  /\ thrown'[c] # NoErr
                  /\ err'[c] = VerbCatch(variant, op[c].verb, thrown'[c])
            /\ pc[c] = "failed" /\ calls' = calls =>
                  /\ pc'[c] = "failed"
                  /\ oauthCalls' = oauthCalls
                  /\ req'[c] = req[c]
                  /\ trace'[c] = trace[c]
                  /\ err'[c] = err[c]]_vars
    /\ [](/\ oauthCalls <= calls
          /\ \A c \in Callers :
                /\ Count(trace[c], "oauth") <= 1
                /\ Count(trace[c], "request") <= 1
                /\ ExchangeFailed(c) => Count(trace[c], "request") = 0)

\* a PATCH call made its one exchange and its one request, the request was
\* answered 500, and the call has failed with that error
C21_Witness ==
    \E c \in Callers :
        /\ RequestFailed(c)
        /\ op[c].verb = "PATCH"
        /\ trace[c] = <<"check", "oauth", "sleep", "request">>
        /\ thrown[c].status = 500
        /\ err[c] = thrown[c]


\* caller c's current or last operation is a probe for the latest checkpoint
IsProbe(c) == op[c].name \in ProbeNames

\* the address a probe of caller c asks with the from value spelt f
ProbeURL(c, f) ==
    SiteURL \o <<"api", IF version = 3 THEN "v3" ELSE "v2">>
            \o ProbeNamed(op[c].name).path
            \o <<"?limit=1000", "&from=" \o f>>

\* C22: a probe for the latest checkpoint makes its first fetch with
\* from=999999999999 when it is called, its second fetch with from equal to
\* the first response's next_checkpoint when that response arrives, and
\* returns the second response's next_checkpoint when that one arrives; it
\* never makes a third fetch, and it has returned no checkpoint unless both
\* fetches were answered (a failed exchange or request fails the probe).
C22_LatestCheckpointProbe ==
    /\ [][\A c \in Callers :
            /\ IsProbe(c)' /\ walks' # walks =>
                  (fetches[c] = <<ProbeURL(c, "999999999999")>>)'
            /\ IsProbe(c) /\ GetsResponse(c) /\ Len(fetches[c]) = 1 =>
                  /\ pc'[c] # "done"
                  /\ latest'[c] = NoCheckpoint
                  /\ fetches'[c] =
                        <<ProbeURL(c, "999999999999"),
                          ProbeURL(c, ToString(data'[c].next_checkpoint))>>
            /\ IsProbe(c) /\ GetsResponse(c) /\ Len(fetches[c]) = 2 =>
                  /\ pc'[c] = "done"
                  /\ latest'[c] = data'[c].next_checkpoint
                  /\ fetches'[c] = fetches[c]
                  /\ calls' = calls
            /\ IsProbe(c) /\ FetchFails(c) =>
                  /\ latest'[c] = NoCheckpoint
                  /\ fetches'[c] = fetches[c]
                  /\ err'[c] # NoErr]_vars
    /\ [](\A c \in Callers :
            IsProbe(c) =>
                /\ Len(fetches[c]) \in {1, 2}
                /\ pc[c] = "request" => req[c].url = Last(fetches[c])
                /\ pc[c] # "done" => latest[c] = NoCheckpoint
                /\ pc[c] = "done" =>
                      /\ Len(fetches[c]) = 2
                      /\ latest[c] = data[c].next_checkpoint
                /\ feed = "script" /\ Len(fetches[c]) = 2 =>
                      fetches[c][2] =
                          ProbeURL(c, ToString(script[1].next_checkpoint))
                /\ feed = "script" /\ pc[c] = "done" =>
                      latest[c] = script[2].next_checkpoint
                /\ feed = "log" /\ pc[c] = "done" => latest[c] = Len(log))

\* against answers naming checkpoints 7 and 4, a probe has asked from the
\* sentinel, then from 7, and returned 4
C22_Witness ==
    \E c \in Callers :
        /\ IsProbe(c)
        /\ pc[c] = "done"
        /\ Len(script) = 3
        /\ fetches[c] = <<ProbeURL(c, "999999999999"), ProbeURL(c, "7")>>
        /\ latest[c] = 4


(* ---------------------- claims on the tag operations ------------------ *)
\* caller c's current or last operation adds tags / deletes a tag
IsAddTags(c) == op[c].name \in AddTagNames
IsDeleteTag(c) == op[c].name \in DeleteTagNames
\* the GET of caller c's tag operation has been answered
HasRead(c) == op[c].verb = "PATCH" \/ err[c].shape = "TypeError"
\* the elements of a sequence
Elems(s) == {s[i] : i \in 1..Len(s)}
\* the entity caller c's tag operation addresses
Entity(c) == op[c].path[2]

\* C23: when the tag given to deleteDetectionTag / deleteAccountTag /
\* deleteHostTag is not in the tag list the operation read, the operation
\* raises no error of its own, goes on to a PATCH whose tag list is the list
\* it read (same elements, same order), and completes when the PATCH is
\* answered.
C23_AbsentTagNoOp ==
    \A c \in Callers :
        (IsDeleteTag(c) /\ HasRead(c) /\ given[c][1] \notin Elems(existingTags[c]))
            => /\ err[c].shape # "TypeError"
               /\ op[c].verb = "PATCH"
               /\ bodyArg[c] = [kind |-> "tags", tags |-> existingTags[c]]
               /\ pc[c] = "request" => req[c].method = "PATCH"

\* C23 failing input: deleteDetectionTag of the earlier client, with a tag
\* the entity does not have, failed on a TypeError after its GET was
\* answered, without a PATCH.
C23_Threw ==
    \E c \in Callers :
        /\ variant = 2
        /\ op[c].name = "deleteDetectionTag"
        /\ given[c] = <<"c">>
        /\ existingTags[c] = <<"b">>
        /\ pc[c] = "failed"
        /\ err[c].shape = "TypeError"
        /\ req[c].method = "GET"

\* C24: the server stores the list of whichever PATCH it answers, whatever
\* it held before, and the operation completes without an error; so when
\* two mutations of one entity have both read the same list and both
\* completed, the stored list is the list one of them computed from that
\* read alone, and neither of them has failed or been told.
C24_LostUpdate ==
    /\ [][\A c \in Callers :
            (IsAddTags(c) \/ IsDeleteTag(c)) /\ pc[c] = "request"
                /\ pc'[c] = "done" =>
                /\ tags'[Entity(c)] = bodyArg[c].tags
                /\ err'[c] = NoErr]_vars
    /\ [](\A c, d \in Callers :
            (/\ c # d
             /\ (IsAddTags(c) \/ IsDeleteTag(c))
             /\ (IsAddTags(d) \/ IsDeleteTag(d))
             /\ Entity(c) = Entity(d)
             /\ pc[c] = "done" /\ pc[d] = "done"
             /\ existingTags[c] = existingTags[d])
                => /\ tags[Entity(c)] \in {bodyArg[c].tags, bodyArg[d].tags}
                   /\ err[c] = NoErr /\ err[d] = NoErr
                   /\ variant = 1 /\ IsAddTags(c) =>
                         bodyArg[c].tags = given[c] \o existingTags[c])

\* two addDetectionTags calls of the current client, one with c and one with
\* d and a, both read the list b and both completed: the stored list has d
\* and a but not c
C24_Witness ==
    /\ variant = 1
    /\ op[1].name = "addDetectionTags" /\ op[2].name = "addDetectionTags"
    /\ pc[1] = "done" /\ pc[2] = "done"
    /\ given[1] = <<"c">> /\ given[2] = <<"d", "a">>
    /\ existingTags[1] = <<"b">> /\ existingTags[2] = <<"b">>
    /\ tags["detection"] = <<"d", "a", "b">>
    /\ err[1] = NoErr /\ err[2] = NoErr

\* C27: when addDetectionTags / addAccountTags / addHostTags goes on to its
\* PATCH, after the one GET that read the tags, the tag list of the PATCH
\* holds every tag that was read and every tag supplied and nothing else.
C27_AddKeepsExisting ==
    \A c \in Callers :
        (IsAddTags(c) /\ op[c].verb = "PATCH")
            => /\ bodyArg[c].kind = "tags"
               /\ Elems(bodyArg[c].tags)
                     = Elems(existingTags[c]) \cup Elems(given[c])
               /\ pc[c] = "request" => req[c].method = "PATCH"

\* C27 failing input: addDetectionTags of the earlier client, with the tag c
\* for an entity that has the tag b, has sent the list c, undefined.
C27_Dropped ==
    \E c \in Callers :
        /\ variant = 2
        /\ op[c].name = "addDetectionTags"
        /\ given[c] = <<"c">>
        /\ existingTags[c] = <<"b">>
        /\ pc[c] = "done"
        /\ tags["detection"] = <<"c", "undefined">>

\* C28: in the current client, when the GET of deleteDetectionTag /
\* deleteAccountTag / deleteHostTag is answered, the operation goes on to a
\* PATCH whose tag list is the list read without any occurrence of the tag,
\* the other tags in their order; this for every number of occurrences,
\* adjacent ones included.
C28_DeleteEveryOccurrence ==
    /\ [][\A c \in Callers :
            (variant = 1 /\ IsDeleteTag(c) /\ GetsResponse(c)
                /\ op[c].verb = "GET") =>
                /\ op'[c].verb = "PATCH"
                /\ existingTags'[c] = tags[Entity(c)]
                /\ pc'[c] # "done"]_vars
    /\ [](\A c \in Callers :
            (variant = 1 /\ IsDeleteTag(c) /\ op[c].verb = "PATCH") =>
                /\ bodyArg[c].kind = "tags"
                /\ given[c][1] \notin Elems(bodyArg[c].tags)
                /\ bodyArg[c].tags =
                      SelectSeq(existingTags[c], LAMBDA t : t # given[c][1])
                /\ pc[c] = "done" /\ (\A d \in Callers : d # c => pc[d] = "idle")
                      => tags[Entity(c)] = bodyArg[c].tags)

\* deleteHostTag has read a, a, b, a, sent the list b for the tag a, and the
\* server holds b
C28_Witness ==
    \E c \in Callers :
        /\ op[c].name = "deleteHostTag"
        /\ pc[c] = "done"
        /\ given[c] = <<"a">>
        /\ existingTags[c] = <<"a", "a", "b", "a">>
        /\ bodyArg[c].tags = <<"b">>
        /\ tags["host"] = <<"b">>


(* ------------------- claims on options and request bodies ------------- *)
\* C25: getAllDetections and getAllAccounts called with an empty options
\* object or with no options argument raise no error of their own and ask
\* first for exactly {list path}?page=1, with nothing after it.
C25_EmptyOptions ==
    \A c \in Callers :
        (op[c].name \in {"getAllDetections", "getAllAccounts"}
            /\ options[c].pairs = <<>>)
            => /\ err[c].shape # "TypeError"
               /\ fetches[c] # <<>>
               /\ fetches[c][1] =
                     SiteURL \o <<"api", IF version = 3 THEN "v3" ELSE "v2",
                                  IF op[c].name = "getAllDetections"
                                  THEN "detections" ELSE "accounts",
                                  "?page=1">>

\* C25 failing input: getAllAccounts() of the earlier client, called with no
\* argument, failed on a TypeError before any request.
C25_Threw ==
    \E c \in Callers :
        /\ variant = 2
        /\ op[c].name = "getAllAccounts"
        /\ options[c] = NoOptions
        /\ pc[c] = "failed"
        /\ err[c].shape = "TypeError"
        /\ fetches[c] = <<>>
        /\ req[c] = NoReq

\* the rule the caller passes to updateTriageRule, and the rule's number
RuleID == "5"
RuleDetails == [kind |-> "rule", tags |-> <<>>]

\* C26: whenever updateTriageRule(ruleID, rule) has sent its request, the
\* request is a PUT, its body is the rule the caller supplied, and its
\* address names the rule ruleID.
C26_UpdateTriageRuleBody ==
    \A c \in Callers :
        (op[c].name = "updateTriageRule" /\ pc[c] \in {"request", "done"})
            => /\ req[c].method = "PUT"
               /\ bodyArg[c] = RuleDetails
               /\ \E i \in 1..Len(req[c].url) : req[c].url[i] = RuleID

\* C26 failing input: updateTriageRule has completed with a PUT to /rules
\* whose body is the number ruleID.
C26_SentRuleID ==
    \E c \in Callers :
        /\ op[c].name = "updateTriageRule"
        /\ pc[c] = "done"
        /\ req[c].method = "PUT"
        /\ req[c].url = SiteURL \o <<"api", IF version = 3 THEN "v3" ELSE "v2",
                                      "rules">>
        /\ bodyArg[c] = [kind |-> "ruleID", tags |-> <<>>]


(* ---------------------- claims on refreshes and walks ----------------- *)
\* the expiry instant #getToken computed from the last successful exchange
LastExpiry == lastExch.sec + lastExch.expiresIn - (IF variant = 1 THEN 100 ELSE 0)

\* C29: whenever a gateway call evaluates the condition of #checkToken with
\* a token held, and whenever it reads the token for the bearer header, the
\* token is the one returned by the last successful exchange and the expiry
\* instant is the one computed from that same exchange's expires_in; outside
\* the assignment that follows an exchange at once, the client holds either
\* no token with the initial expiry 0 (no exchange has succeeded) or the
\* token and the expiry of one and the same exchange.
C29_TokenExpiryPaired ==
    /\ [][\A c \in Callers :
            /\ calls' = calls + 1 /\ pc'[c] # pc[c] /\ token # NoToken =>
                  /\ token = lastExch.tok
                  /\ tokenRefresh = LastExpiry
            /\ pc[c] = "sleeping" /\ pc'[c] = "request" =>
                  /\ req'[c].bearer = token
                  /\ token = lastExch.tok
                  /\ tokenRefresh = LastExpiry]_vars
    /\ [](\/ \E c \in Callers : pc[c] = "assign"
          \/ exchanges = 0 /\ token = NoToken /\ tokenRefresh = 0
          \/ exchanges > 0 /\ token = lastExch.tok /\ tokenRefresh = LastExpiry)

\* two exchanges with different expires_in were under way at once, both
\* succeeded, and a caller is about to read the token: the token and the
\* expiry are both those of the exchange that completed last
C29_Witness ==
    /\ exchanges >= 2
    /\ ret[1] # NoToken /\ ret[2] # NoToken
    /\ ret[1].exp # ret[2].exp
    /\ pc[1] = "sleeping" /\ pc[2] = "sleeping"
    /\ token = lastExch.tok
    /\ tokenRefresh = LastExpiry
    /\ lastExch.by = 1
    /\ token = ret[1]

\* C30: when a walk goes on after a response, the next fetch starts with
\* the token check, made against the clock of that moment: it sends one
\* OAuth2 request when the expiry instant has passed and none otherwise;
\* while the exchange, the assignment and the sleep of that fetch run, the
\* walk's cursor or checkpoint, its results and its fetches stay as they
\* are; the request then sent addresses the page or checkpoint the last
\* response named and, after an exchange, carries the new token; no fetch
\* makes more than one exchange, and the walk returns the complete sequence.
C30_RefreshMidWalk ==
    /\ [][\A c \in Callers :
            /\ (IsWalk(c) /\ GetsResponse(c) /\ ~Settled(c)') =>
                  /\ calls' = calls + 1
                  /\ trace'[c][1] = "check"
                  /\ lastCheck'.sec = nowMs \div 1000
                  /\ lastCheck'.tok = token
                  /\ lastCheck'.expiry = tokenRefresh
                  /\ token # NoToken
                  /\ IF tokenRefresh < nowMs \div 1000
                     THEN /\ pc'[c] = "exchange"
                          /\ oauthCalls' = oauthCalls + 1
                     ELSE /\ pc'[c] = "sleeping"
                          /\ oauthCalls' = oauthCalls
            /\ (IsWalk(c) /\ pc[c] \in {"exchange", "assign", "sleeping"}
                    /\ ~Settled(c)') =>
                  /\ data'[c] = data[c]
                  /\ results'[c] = results[c]
                  /\ fetches'[c] = fetches[c]
                  /\ oauthCalls' = oauthCalls
            /\ (IsWalk(c) /\ pc[c] = "sleeping" /\ pc'[c] = "request") =>
                  /\ req'[c].url = Last(fetches[c])
                  /\ Refreshed(c) =>
                        /\ req'[c].bearer = lastExch.tok
                        /\ lastExch.tok # lastCheck.tok]_vars
    /\ [](\A c \in Callers :
            IsWalk(c) =>
                /\ Count(trace[c], "oauth") <= 1
                /\ IsPageWalk(c) =>
                      results[c] = Flatten(pages, Received(c))
                /\ IsEventWalk(c) =>
                      results[c] =
                        Flatten([i \in 1..Len(script) |-> script[i].events],
                                Received(c))
                /\ returned[c].done =>
                      returned[c].value =
                          IF IsPageWalk(c) THEN Flatten(pages, Len(pages))
                          ELSE ScriptEvents)

\* a walk of three fetches has returned everything: the token of the first
\* fetch was used again for the second, had run out at the check of the
\* third, and was replaced by one more exchange
C30_Witness ==
    \E c \in Callers :
        /\ IsWalk(c)
        /\ pc[c] = "done"
        /\ Len(fetches[c]) = 3
        /\ calls = 3
        /\ oauthCalls = 2 /\ exchanges = 2
        /\ lastCheck.tok # NoToken /\ lastCheck.refresh
        /\ lastCheck.expiry < lastCheck.sec
        /\ req[c].bearer = lastExch.tok
        /\ Len(returned[c].value) \in {5, 8}


=============================================================================
